---- MODULE Spec2Model ----
(***************************************************************************)
(* Model of the MolecuLab molecular file parsers (detectFormat, parseXYZ,  *)
(* parseMOL, parsePDB, parseSDF, parseFile) and of the distance-based bond *)
(* generation they share.                                                  *)
(*                                                                         *)
(* Representation.  A JavaScript string is a sequence of one-character     *)
(* strings, so that trim, split, substring, startsWith, parseInt,          *)
(* parseFloat and the regular expressions of the source are computed       *)
(* character by character.  A JavaScript number is a one-element sequence  *)
(* <<v>> and NaN is the empty sequence; coordinates and bond lengths are   *)
(* fixed-point hundredths of an Angstrom (0.96 is 96).  An absent optional *)
(* argument (filename, name) is the empty string: the source only ever     *)
(* tests these arguments for truthiness, which undefined and '' share.     *)
(* A JavaScript object is a record with exactly the keys the object        *)
(* literal has; the colour and radius of an atom (display data looked up   *)
(* from ELEMENT_COLORS / ELEMENT_RADII) are left out.                      *)
(***************************************************************************)
EXTENDS Integers, Sequences, FiniteSets, TLC

VARIABLES content, filename, args, store, now, pc, op, result

vars == <<content, filename, args, store, now, pc, op, result>>

(***************************************************************************)
(* JavaScript built-ins used by the parsers                                *)
(***************************************************************************)

\* The characters \s matches and trim() strips (those that occur in inputs).
WS == {" ", "\t", "\n", "\r"}

DIGITS == <<"0","1","2","3","4","5","6","7","8","9">>

UPPER == <<"A","B","C","D","E","F","G","H","I","J","K","L","M","N","O","P","Q","R","<<",">>T","U","V","W","X","Y","Z">>

LOWER == <<"a","b","c","d","e","f","g","h","i","j","k","l","m","n","o","p","q","r","s","t","u","v","w","x","y","z">>

IsDigit(c) == \E i \in 1..10 : DIGITS[i] = c

DigitVal(c) == (CHOOSE i \in 1..10 : DIGITS[i] = c) - 1

SetMin(K) == CHOOSE x \in K : \A y \in K : x <= y

SetMax(K) == CHOOSE x \in K : \A y \in K : x >= y

Last(s) == s[Len(s)]

\* The number NaN, a number v, and the tests on them.
NaN == <<>>

Num(v) == <<v>>

isNaN(n) == n = NaN

Val(n) == n[1]

\* n - 1 on a JavaScript number: NaN - 1 is NaN.
Minus1(n) == IF isNaN(n) THEN NaN ELSE Num(Val(n) - 1)

\* a < b and a >= b on JavaScript numbers: every comparison with NaN is false.
JsLt(a, b) == ~isNaN(a) /\ ~isNaN(b) /\ Val(a) < Val(b)

JsGe(a, b) == ~isNaN(a) /\ ~isNaN(b) /\ Val(a) >= Val(b)

RECURSIVE DecVal(_)
\* The value of a run of decimal digits.
DecVal(ds) ==
  IF ds = <<>> THEN 0
  ELSE DecVal(SubSeq(ds, 1, Len(ds) - 1)) * 10 + DigitVal(ds[Len(ds)])

RECURSIVE NatToStr(_)
NatToStr(v) ==
  IF v < 10 THEN <<DIGITS[v + 1]>>
  ELSE NatToStr(v \div 10) \o <<DIGITS[(v % 10) + 1]>>

\* String(n), as a template literal `${n}` renders a number.
ToStr(n) ==
  IF isNaN(n) THEN <<"N","a","N">>
  ELSE IF Val(n) < 0 THEN <<"-">> \o NatToStr(-Val(n))
  ELSE NatToStr(Val(n))

\* The length of the run of digits s starts with.
DigitRun(s) ==
  CHOOSE n \in 0..Len(s) :
    /\ \A i \in 1..n : IsDigit(s[i])
    /\ (n = Len(s) \/ ~IsDigit(s[n + 1]))

trimStart(s) ==
  LET K == {i \in 1..Len(s) : s[i] \notin WS}
  IN IF K = {} THEN <<>> ELSE SubSeq(s, SetMin(K), Len(s))

\* String.prototype.trim
trim(s) ==
  LET K == {i \in 1..Len(s) : s[i] \notin WS}
  IN IF K = {} THEN <<>> ELSE SubSeq(s, SetMin(K), SetMax(K))

\* The sign a numeric text starts with, and the text after the sign.
Sign(t) == IF Len(t) > 0 /\ t[1] = "-" THEN -1 ELSE 1

Unsigned(t) == IF Len(t) > 0 /\ t[1] \in {"-", "+"} THEN Tail(t) ELSE t

\* The integer read from the first n characters (digits) of body.
IntOf(sign, body, n) ==
  IF n = 0 THEN NaN ELSE Num(sign * DecVal(SubSeq(body, 1, n)))

\* parseInt(s, 10): leading whitespace, an optional sign, then the longest
\* run of digits; whatever follows the digits is ignored; NaN without a digit.
parseInt(s) ==
  IntOf(Sign(trimStart(s)), Unsigned(trimStart(s)), DigitRun(Unsigned(trimStart(s))))

\* The digits after a decimal point that rest starts with, if it does.
FracDigits(rest) ==
  IF Len(rest) > 0 /\ rest[1] = "."
  THEN SubSeq(rest, 2, 1 + DigitRun(Tail(rest)))
  ELSE <<>>

\* The number, in hundredths, with the given integer and fraction digits.
FloatOf(sign, int, frac) ==
  IF int = <<>> /\ frac = <<>> THEN NaN
  ELSE Num(sign * (DecVal(int) * 100 + DecVal(SubSeq(frac \o <<"0", "0">>, 1, 2))))

FloatFrom(sign, body, n1) ==
  FloatOf(sign, SubSeq(body, 1, n1), FracDigits(SubSeq(body, n1 + 1, Len(body))))

\* parseFloat(s) in hundredths: leading whitespace, an optional sign, digits,
\* an optional point and digits; whatever follows is ignored; NaN when no
\* digit is read.  Digits past the second decimal are dropped (the inputs of
\* this model carry at most two) and exponents do not occur in the inputs.
parseFloat(s) ==
  FloatFrom(Sign(trimStart(s)), Unsigned(trimStart(s)), DigitRun(Unsigned(trimStart(s))))

\* s.split(c) for a one-character separator c.
Split(s, c) ==
  LET P == {i \in 1..Len(s) : s[i] = c}
      n == Cardinality(P)
      pos(k) == IF k = 0 THEN 0
                ELSE IF k = n + 1 THEN Len(s) + 1
                ELSE CHOOSE p \in P : Cardinality({q \in P : q < p}) = k - 1
  IN [k \in 1..(n + 1) |-> SubSeq(s, pos(k - 1) + 1, pos(k) - 1)]

\* s.split(/\s+/): the pieces between maximal runs of whitespace; a string
\* that starts (ends) with whitespace has an empty first (last) piece.
SplitWS(s) ==
  LET B == {i \in 1..Len(s) : s[i] \notin WS /\ (i = 1 \/ s[i - 1] \in WS)}
      n == Cardinality(B)
      start(k) == CHOOSE p \in B : Cardinality({q \in B : q < p}) = k - 1
      stop(p) == SetMax({j \in p..Len(s) : \A i \in p..j : s[i] \notin WS})
      runs == [k \in 1..n |-> SubSeq(s, start(k), stop(start(k)))]
  IN IF s = <<>> THEN << <<>> >>
     ELSE (IF s[1] \in WS THEN << <<>> >> ELSE <<>>) \o runs
          \o (IF s[Len(s)] \in WS THEN << <<>> >> ELSE <<>>)

startsWith(s, p) == Len(s) >= Len(p) /\ SubSeq(s, 1, Len(p)) = p

\* The 1-based positions at which p occurs in s.
Occurrences(s, p) ==
  {i \in 1..(Len(s) - Len(p) + 1) : SubSeq(s, i, i + Len(p) - 1) = p}

includes(s, p) == Occurrences(s, p) # {}

\* s.substring(a, b) for 0 <= a <= b: both ends are clamped to the length.
substring(s, a, b) ==
  LET lo == IF a > Len(s) THEN Len(s) ELSE a
      hi == IF b > Len(s) THEN Len(s) ELSE b
  IN SubSeq(s, lo + 1, hi)

\* SplitHead without the split: the whole text.
SplitHeadWhole(s, sep) == s

\* s.split(sep)[0]: the text before the first occurrence of sep.
SplitHead(s, sep) ==
  IF includes(s, sep) THEN SubSeq(s, 1, SetMin(Occurrences(s, sep)) - 1) ELSE s

\* s.split(sep)[1] when sep occurs in s: the text between its first
\* occurrence and the next one after it (or the end of s).
SplitSecond(s, sep) ==
  LET first == SetMin(Occurrences(s, sep))
      from == first + Len(sep)
      later == {i \in Occurrences(s, sep) : i >= from}
  IN SubSeq(s, from, IF later = {} THEN Len(s) ELSE SetMin(later) - 1)

\* s.replace(c, ''): removes the first occurrence of the character c only.
RemoveFirst(s, c) ==
  LET P == {i \in 1..Len(s) : s[i] = c}
  IN IF P = {} THEN s
     ELSE SubSeq(s, 1, SetMin(P) - 1) \o SubSeq(s, SetMin(P) + 1, Len(s))

toLowerCase(s) ==
  [i \in 1..Len(s) |->
     IF \E k \in 1..26 : UPPER[k] = s[i]
     THEN LOWER[CHOOSE k \in 1..26 : UPPER[k] = s[i]]
     ELSE s[i]]

\* parts[i] of a JavaScript array (0-based i); undefined outside it.  The
\* only use of an undefined element here is parseInt(undefined), which reads
\* the string 'undefined'.
At(parts, i) == IF i >= 0 /\ i < Len(parts) THEN parts[i + 1] ELSE <<"u","n","d","e","f","i","n","e","d">>

RECURSIVE Flatten(_)
\* The concatenation of a sequence of sequences: what a loop that pushes
\* zero or one element per iteration builds.
Flatten(ss) ==
  IF Len(ss) = 0 THEN <<>>
  ELSE Flatten(SubSeq(ss, 1, Len(ss) - 1)) \o ss[Len(ss)]

\* a || b on strings: the empty string is falsy.
Or(a, b) == IF a # <<>> THEN a ELSE b

\* The lines every parser reads: content.trim().split('\n').
Lines(c) == Split(trim(c), "\n")

\* What a try block that threw evaluates to, before the catch.
Threw == [threw |-> "TypeError"]

HasThrown(r) == "threw" \in DOMAIN r

(***************************************************************************)
(* Format detection                                                        *)
(***************************************************************************)

\* /^(HEADER|ATOM|HETATM|CRYST1)/
PDB_PREFIXES == {<<"H","E","A","D","E","R">>, <<"A","T","O","M">>, <<"H","E","T","A","T","M">>, <<"C","R","Y","S","T","1">>}

IsPDBLine(l) == \E k \in PDB_PREFIXES : startsWith(l, k)

\* /^\s*\d+\s*$/
IsCountLine(l) ==
  LET t == trim(l) IN t # <<>> /\ \A i \in 1..Len(t) : IsDigit(t[i])

\* /^\s*\d+\s+\d+/ on a line t without its leading whitespace, whose leading
\* run of digits has length n.
CountsAfter(t, n) ==
  /\ n > 0
  /\ Len(t) > n /\ t[n + 1] \in WS
  /\ Len(trimStart(SubSeq(t, n + 1, Len(t)))) > 0
  /\ IsDigit(trimStart(SubSeq(t, n + 1, Len(t)))[1])

IsCountsLine(l) == CountsAfter(trimStart(l), DigitRun(trimStart(l)))

\* Extension without the toLowerCase() call.
ExtensionCaseSensitive(f) == Last(Split(f, "."))

\* filename.split('.').pop()?.toLowerCase()
Extension(f) == toLowerCase(Last(Split(f, ".")))

\* The extension tests: the format of ext, or "none" when no test matches.
ByExtension(ext) ==
  IF ext \in {<<"m","o","l">>, <<"m","o","l","2">>} THEN "mol"
  ELSE IF ext = <<"p","d","b">> THEN "pdb"
  ELSE IF ext = <<"x","y","z">> THEN "xyz"
  ELSE IF ext = <<"s","d","f">> THEN "sdf"
  ELSE "none"

\* The content tests, on the lines of the trimmed content.
ByContent(c, lines) ==
  IF \E i \in 1..Len(lines) : IsPDBLine(lines[i]) THEN "pdb"
  ELSE IF IsCountLine(lines[1]) THEN "xyz"
  ELSE IF Len(lines) > 3 /\ IsCountsLine(lines[4])
       THEN (IF includes(c, <<"$","$","$","$">>) THEN "sdf" ELSE "mol")
  ELSE "unknown"

detectFormat(c, f) ==
  IF f # <<>> /\ ByExtension(Extension(f)) # "none"
  THEN ByExtension(Extension(f))
  ELSE ByContent(c, Lines(c))

(***************************************************************************)
(* Bond generation from distances                                          *)
(***************************************************************************)

\* The table of expected single-bond lengths, in hundredths of an Angstrom.
BOND_DISTANCES ==
  { <<<<"H","-","H">>, 74>>, <<<<"C","-","C">>, 154>>, <<<<"C","-","H">>, 109>>, <<<<"C","-","N">>, 147>>,
    <<<<"C","-","O">>, 143>>, <<<<"N","-","H">>, 101>>, <<<<"O","-","H">>, 96>>, <<<<"N","-","N">>, 145>>,
    <<<<"O","-","O">>, 148>>, <<<<"C","-","S">>, 182>>, <<<<"C","-","C","l">>, 177>>, <<<<"C","-","F">>, 135>>,
    <<<<"C","-","B","r">>, 194>>, <<<<"D","E","F","A","U","L","T">>, 160>> }

\* BOND_DISTANCES[key]: the entry, or 0 (falsy, like undefined) without one.
BondTable(key) ==
  IF \E e \in BOND_DISTANCES : e[1] = key
  THEN (CHOOSE e \in BOND_DISTANCES : e[1] = key)[2]
  ELSE 0

\* a || b || c on table entries.
FirstEntry(a, b, c) == IF a # 0 THEN a ELSE IF b # 0 THEN b ELSE c

\* getBondDistance without the lookup of the reversed key.
getBondDistanceOneKey(el1, el2) ==
  FirstEntry(BondTable(el1 \o <<"-">> \o el2), 0, BondTable(<<"D","E","F","A","U","L","T">>))

getBondDistance(el1, el2) ==
  FirstEntry(BondTable(el1 \o <<"-">> \o el2),
             BondTable(el2 \o <<"-">> \o el1),
             BondTable(<<"D","E","F","A","U","L","T">>))

tolerance == 40

Square(v) == v * v

\* The square of the distance between two positions.
DistanceSquared(p, q) == Square(p.x - q.x) + Square(p.y - q.y) + Square(p.z - q.z)

\* WithinBondDistance without the tolerance added to the expected distance.
WithinBondDistanceNoTolerance(a1, a2) ==
  DistanceSquared(a1.position, a2.position)
    <= Square(getBondDistance(a1.element, a2.element))

\* dist <= expectedDist + tolerance, decided on the squares (both sides are
\* non-negative), in exact arithmetic.
WithinBondDistance(a1, a2) ==
  DistanceSquared(a1.position, a2.position)
    <= Square(getBondDistance(a1.element, a2.element) + tolerance)

\* `b${n}`
BondId(n) == <<"b">> \o NatToStr(n)

\* The bond object pushed as the n-th bond between atoms a1 and a2.
Bond(n, a1, a2, order) ==
  [id |-> BondId(n), atom1Id |-> a1.id, atom2Id |-> a2.id, order |-> order]

\* The index pairs i < j the double loop pushes a bond for, in loop order.
BondedPairs(atoms) ==
  Flatten([i \in 1..Len(atoms) |->
    Flatten([j \in 1..Len(atoms) |->
      IF j > i /\ WithinBondDistance(atoms[i], atoms[j])
      THEN << <<i, j>> >> ELSE <<>>])])

BondsOfPairs(atoms, pairs) ==
  [k \in 1..Len(pairs) |-> Bond(k, atoms[pairs[k][1]], atoms[pairs[k][2]], 1)]

generateBondsFromDistance(atoms) == BondsOfPairs(atoms, BondedPairs(atoms))

(***************************************************************************)
(* XYZ                                                                     *)
(***************************************************************************)

Failure(msg, fmt) == [success |-> FALSE, error |-> msg, format |-> fmt]

Success(mol, fmt) == [success |-> TRUE, molecule |-> mol, format |-> fmt]

\* The isNaN(x) || isNaN(y) || isNaN(z) test of the atom loops and the push
\* after it: the atom whose id ends in suffix, or nothing.
AtomOrSkip(element, suffix, x, y, z) ==
  IF isNaN(x) \/ isNaN(y) \/ isNaN(z) THEN <<>>
  ELSE << [id |-> element \o suffix,
           element |-> element,
           position |-> [x |-> Val(x), y |-> Val(y), z |-> Val(z)]] >>

\* The smaller of two integers: the two bounds of a loop condition.
Least(a, b) == IF a < b THEN a ELSE b

\* The tokens of a record line: line.trim().split(/\s+/)
Tokens(line) == SplitWS(trim(line))

\* One iteration of the atom loop of parseXYZ on the tokens of lines[i]
\* (0-based i): the atom pushed, or nothing when the line is skipped.
XYZAtom(parts, i) ==
  IF Len(parts) < 4 THEN <<>>
  ELSE AtomOrSkip(parts[1], NatToStr(i - 1),
                  parseFloat(parts[2]), parseFloat(parts[3]), parseFloat(parts[4]))

\* The atom loop: i from 2 while i < 2 + atomCount and i < lines.length.
XYZAtoms(lines, atomCount) ==
  Flatten([k \in 1..(Least(2 + atomCount, Len(lines)) - 2) |->
             XYZAtom(Tokens(lines[k + 2]), k + 1)])

\* name || comment || 'Imported Molecule'
XYZName(name, comment) == Or(name, Or(comment, <<"I","m","p","o","r","t","e","d"," ","M","o","l","e","c","u","l","e">>))

\* The molecule object parseXYZ builds from the atoms it read.
XYZMolecule(atoms, name, t) ==
  [id |-> <<"x","y","z","-">> \o NatToStr(t),
   name |-> name,
   atoms |-> atoms,
   bonds |-> generateBondsFromDistance(atoms)]

\* parseXYZ after the header line has been read.
XYZBody(lines, atomCount, name, t) ==
  IF isNaN(atomCount)
  THEN Failure("Invalid XYZ file: first line must be atom count", "xyz")
  ELSE Success(XYZMolecule(XYZAtoms(lines, Val(atomCount)),
                           XYZName(name, trim(lines[2])), t), "xyz")

\* parseXYZ on the lines of the trimmed content.
XYZLines(lines, name, t) ==
  IF Len(lines) < 3
  THEN Failure("Invalid XYZ file: too few lines", "xyz")
  ELSE XYZBody(lines, parseInt(trim(lines[1])), name, t)

\* parseXYZ(content, name) called when Date.now() is t.  Nothing in its try
\* block can throw: every lines[i] it reads has 0 <= i < lines.length.
parseXYZ(c, name, t) == XYZLines(Lines(c), name, t)

(***************************************************************************)
(* MOL (V2000)                                                             *)
(***************************************************************************)

\* One iteration of the atom loop of parseMOL on the tokens of lines[i]
\* (0-based i).
MOLAtom(parts, i) ==
  IF Len(parts) < 4 THEN <<>>
  ELSE AtomOrSkip(parts[4], NatToStr(i - 3),
                  parseFloat(parts[1]), parseFloat(parts[2]), parseFloat(parts[3]))

\* The atom loop: i from 4 while i < 4 + atomCount and i < lines.length.
MOLAtoms(lines, atomCount) ==
  Flatten([k \in 1..(Least(4 + atomCount, Len(lines)) - 4) |->
             MOLAtom(Tokens(lines[k + 4]), k + 3)])

\* order || 1: NaN and 0 are falsy.
MOLOrder(order) == IF isNaN(order) \/ Val(order) = 0 THEN 1 ELSE Val(order)

\* The range test of the bond loop on the two 0-based indices.
InRange(atom1Idx, atom2Idx, n) ==
  /\ JsGe(atom1Idx, Num(0)) /\ JsLt(atom1Idx, Num(n))
  /\ JsGe(atom2Idx, Num(0)) /\ JsLt(atom2Idx, Num(n))

\* MOLBond storing the 1-based indices of the bond line instead of the ids
\* of the atoms they select.
MOLBondByIndex(atom1Idx, atom2Idx, order, n, atoms) ==
  IF InRange(atom1Idx, atom2Idx, Len(atoms))
  THEN << [id |-> BondId(n),
           atom1Id |-> NatToStr(Val(atom1Idx) + 1),
           atom2Id |-> NatToStr(Val(atom2Idx) + 1),
           order |-> MOLOrder(order)] >>
  ELSE <<>>

\* The range test of the bond loop and the push after it, as the n-th
\* iteration, on the indices and the order read from the line.
MOLBond(atom1Idx, atom2Idx, order, n, atoms) ==
  IF InRange(atom1Idx, atom2Idx, Len(atoms))
  THEN << Bond(n, atoms[Val(atom1Idx) + 1], atoms[Val(atom2Idx) + 1],
               MOLOrder(order)) >>
  ELSE <<>>

\* One iteration of the bond loop of parseMOL on the tokens of a line.
MOLBondLine(parts, n, atoms) ==
  IF Len(parts) < 3 THEN <<>>
  ELSE MOLBond(Minus1(parseInt(parts[1])), Minus1(parseInt(parts[2])),
               parseInt(parts[3]), n, atoms)

\* The bond loop: i from bondStart while i < bondStart + bondCount and
\* i < lines.length.
MOLBonds(lines, bondStart, bondCount, atoms) ==
  Flatten([k \in 1..(Least(bondStart + bondCount, Len(lines)) - bondStart) |->
             MOLBondLine(Tokens(lines[bondStart + k]), k, atoms)])

\* lines[0].trim() || name || 'Imported Molecule'
MOLName(first, name) == Or(trim(first), Or(name, <<"I","m","p","o","r","t","e","d"," ","M","o","l","e","c","u","l","e">>))

\* The molecule object parseMOL builds.
MOLMolecule(lines, atomCount, bondCount, atoms, name, t) ==
  [id |-> <<"m","o","l","-">> \o NatToStr(t),
   name |-> MOLName(lines[1], name),
   atoms |-> atoms,
   bonds |-> MOLBonds(lines, 4 + atomCount, bondCount, atoms)]

\* parseMOL after the counts line has been read.  The bond loop starts at
\* bondStart = 4 + atomCount; when that is negative and the loop runs at all,
\* lines[i] is undefined and lines[i].trim() throws a TypeError.
MOLBody(lines, atomCount, bondCount, name, t) ==
  IF isNaN(atomCount) \/ isNaN(bondCount)
  THEN Failure("Invalid MOL file: cannot parse counts line", "mol")
  ELSE IF /\ 4 + Val(atomCount) < 0
          /\ 4 + Val(atomCount) < Least(4 + Val(atomCount) + Val(bondCount), Len(lines))
  THEN Threw
  ELSE Success(MOLMolecule(lines, Val(atomCount), Val(bondCount),
                           MOLAtoms(lines, Val(atomCount)), name, t), "mol")

\* The first two tokens of the counts line, as parseInt reads them.
MOLCounts(countsParts) ==
  [atomCount |-> parseInt(At(countsParts, 0)),
   bondCount |-> parseInt(At(countsParts, 1))]

\* parseMOL on the lines of the trimmed content.
MOLLines(lines, name, t) ==
  IF Len(lines) < 5
  THEN Failure("Invalid MOL file: too few lines", "mol")
  ELSE MOLBody(lines, MOLCounts(Tokens(lines[4])).atomCount,
               MOLCounts(Tokens(lines[4])).bondCount, name, t)

\* The try block of parseMOL.
parseMOLBody(c, name, t) == MOLLines(Lines(c), name, t)

\* try { ... } catch (err) { return { success: false, error, format } }
Catch(body, msg, fmt) == IF HasThrown(body) THEN Failure(msg, fmt) ELSE body

parseMOL(c, name, t) ==
  Catch(parseMOLBody(c, name, t), "Failed to parse MOL: TypeError", "mol")

(***************************************************************************)
(* SDF                                                                     *)
(***************************************************************************)

\* Relabel without the format override.
RelabelKeep(r, fmt) == r

\* { ...result, format: 'sdf' }
Relabel(r, fmt) == IF HasThrown(r) THEN r ELSE [r EXCEPT !.format = fmt]

\* parseSDF on the first block of the content.
SDFBlock(block, name, t) ==
  IF trim(block) = <<>>
  THEN Failure("Invalid SDF file: no molecule data", "sdf")
  ELSE Relabel(parseMOL(block, name, t), "sdf")

parseSDF(c, name, t) == SDFBlock(SplitHead(c, <<"$","$","$","$">>), name, t)

(***************************************************************************)
(* PDB                                                                     *)
(***************************************************************************)

\* The tests of the name loop on one line.
IsHeader(l) == startsWith(l, <<"H","E","A","D","E","R">>)

IsCompnd(l) == startsWith(l, <<"C","O","M","P","N","D">>) /\ includes(l, <<"M","O","L","E","C","U","L","E",":">>)

\* The name a deciding line gives, molName being the name so far.
NameFromLine(line, molName) ==
  IF IsHeader(line) THEN Or(trim(substring(line, 10, 50)), molName)
  ELSE Or(RemoveFirst(trim(SplitSecond(line, <<"M","O","L","E","C","U","L","E",":">>)), ";"), molName)

\* The positions of the lines that decide the name.
NameLines(lines) == {i \in 1..Len(lines) : IsHeader(lines[i]) \/ IsCompnd(lines[i])}

\* The name loop of parsePDB: the first line that is a HEADER record, or a
\* COMPND record containing 'MOLECULE:', decides and ends the loop.
PDBName(lines, name) ==
  IF NameLines(lines) = {} THEN Or(name, <<"P","D","B"," ","S","t","r","u","c","t","u","r","e">>)
  ELSE NameFromLine(lines[SetMin(NameLines(lines))], Or(name, <<"P","D","B"," ","S","t","r","u","c","t","u","r","e">>))

\* atomName.replace(/\d/g, '').charAt(0)
FirstNonDigit(s) ==
  LET K == {i \in 1..Len(s) : ~IsDigit(s[i])}
  IN IF K = {} THEN <<>> ELSE <<s[SetMin(K)]>>

\* line.substring(76, 78).trim() || atomName.replace(/\d/g, '').charAt(0)
PDBElement(column, atomName) ==
  IF column = <<>> THEN FirstNonDigit(atomName) ELSE column

\* line.substring(a, b).trim()
Field(line, a, b) == trim(substring(line, a, b))

\* One iteration of the record loop of parsePDB on one line.
PDBAtom(line) ==
  IF ~startsWith(line, <<"A","T","O","M">>) /\ ~startsWith(line, <<"H","E","T","A","T","M">>) THEN <<>>
  ELSE AtomOrSkip(PDBElement(Field(line, 76, 78), Field(line, 12, 16)),
                  ToStr(parseInt(Field(line, 6, 11))),
                  parseFloat(Field(line, 30, 38)),
                  parseFloat(Field(line, 38, 46)),
                  parseFloat(Field(line, 46, 54)))

PDBAtoms(lines) == Flatten([k \in 1..Len(lines) |-> PDBAtom(lines[k])])

\* The (sourceIdx, targetIdx) pairs of a CONECT line whose tokens parseInt
\* read as parts, in loop order.
PairsOf(parts) ==
  [k \in 1..(Len(parts) - 1) |-> <<Minus1(parts[1]), Minus1(parts[k + 1])>>]

\* line.substring(6).trim().split(/\s+/).map(s => parseInt(s))
ConectParts(tokens) == [k \in 1..Len(tokens) |-> parseInt(tokens[k])]

ConectPairs(line) == PairsOf(ConectParts(Tokens(substring(line, 6, Len(line)))))

\* The range test of parsePDBBonds: true when the pair is passed over.
\* Every comparison with NaN is false, so a NaN index is not passed over
\* unless the other index is out of range.
ConectSkipped(pair, atoms) ==
  \/ JsLt(pair[1], Num(0)) \/ JsGe(pair[1], Num(Len(atoms)))
  \/ JsLt(pair[2], Num(0)) \/ JsGe(pair[2], Num(Len(atoms)))

\* The key of a pair in the order the record gives its two numbers.
ConectKeyAsRead(pair) == pair

\* [Math.min(s, t), Math.max(s, t)].join('-') as a value: min and max of a
\* pair with a NaN are both NaN.
ConectKey(pair) ==
  IF isNaN(pair[1]) \/ isNaN(pair[2]) THEN <<NaN, NaN>>
  ELSE IF Val(pair[1]) <= Val(pair[2]) THEN <<pair[1], pair[2]>>
  ELSE <<pair[2], pair[1]>>

\* One iteration of the inner loop of parsePDBBonds on one pair, from the
\* bonds pushed and the keys in bondSet before it.
ConectStep(before, pair, atoms) ==
  IF before.threw THEN before
  ELSE IF ConectSkipped(pair, atoms) THEN before
  ELSE IF ConectKey(pair) \in before.bondSet THEN before
  ELSE IF isNaN(pair[1]) \/ isNaN(pair[2])
  THEN [before EXCEPT !.threw = TRUE]
  ELSE [threw |-> FALSE,
        bonds |-> Append(before.bonds,
                    Bond(Len(before.bonds) + 1,
                         atoms[Val(pair[1]) + 1], atoms[Val(pair[2]) + 1], 1)),
        bondSet |-> before.bondSet \cup {ConectKey(pair)}]

RECURSIVE ConectFold(_, _, _)
\* The loops of parsePDBBonds over the first n pairs: the bonds pushed, the
\* keys in bondSet, and whether atoms[NaN].id threw.
ConectFold(pairs, n, atoms) ==
  IF n = 0 THEN [threw |-> FALSE, bonds |-> <<>>, bondSet |-> {}]
  ELSE ConectStep(ConectFold(pairs, n - 1, atoms), pairs[n], atoms)

\* content.split('\n').filter(l => l.startsWith('CONECT'))
ConectLines(all) ==
  Flatten([k \in 1..Len(all) |->
    IF startsWith(all[k], <<"C","O","N","E","C","T">>) THEN <<all[k]>> ELSE <<>>])

\* What parsePDBBonds returns after its loops.
ConectResult(done) == IF done.threw THEN Threw ELSE [bonds |-> done.bonds]

\* The pairs of all CONECT lines, in loop order.
AllPairs(lines) == Flatten([k \in 1..Len(lines) |-> ConectPairs(lines[k])])

\* parsePDBBonds on the CONECT lines.
ConectBonds(lines, atoms) ==
  IF Len(lines) = 0 THEN [bonds |-> <<>>]
  ELSE ConectResult(ConectFold(AllPairs(lines), Len(AllPairs(lines)), atoms))

\* parsePDBBonds(content, atoms): reads the lines of the untrimmed content.
\* Its result is null (here the empty sequence: a non-null result is never
\* empty) or the bonds; Threw when atoms[NaN].id is evaluated.
parsePDBBonds(c, atoms) == ConectBonds(ConectLines(Split(c, "\n")), atoms)

\* parsePDBBonds(content, atoms) || generateBondsFromDistance(atoms)
BondsOr(explicit, atoms) ==
  IF explicit.bonds # <<>> THEN explicit.bonds ELSE generateBondsFromDistance(atoms)

\* parsePDB after the bonds have been read.
PDBResult(lines, atoms, explicit, name, t) ==
  IF HasThrown(explicit) THEN Threw
  ELSE Success([id |-> <<"p","d","b","-">> \o NatToStr(t),
                name |-> PDBName(lines, name),
                atoms |-> atoms,
                bonds |-> BondsOr(explicit, atoms)], "pdb")

\* parsePDB after the atoms have been read.
PDBBody(c, lines, atoms, name, t) ==
  PDBResult(lines, atoms, parsePDBBonds(c, atoms), name, t)

\* The try block of parsePDB.
parsePDBBody(c, name, t) == PDBBody(c, Lines(c), PDBAtoms(Lines(c)), name, t)

\* parsePDB with parsePDBBonds called outside the try block.
parsePDBNoCatch(c, name, t) == parsePDBBody(c, name, t)

parsePDB(c, name, t) ==
  Catch(parsePDBBody(c, name, t), "Failed to parse PDB: TypeError", "pdb")

(***************************************************************************)
(* Entry point                                                             *)
(***************************************************************************)

\* The switch of parseFile on the detected format.
Dispatch(format, c, f, t) ==
  CASE format = "xyz" -> parseXYZ(c, f, t)
    [] format = "mol" -> parseMOL(c, f, t)
    [] format = "pdb" -> parsePDB(c, f, t)
    [] format = "sdf" -> parseSDF(c, f, t)
    [] OTHER -> Failure("Unknown file format", "unknown")

parseFile(c, f, t) == Dispatch(detectFormat(c, f), c, f, t)

(***************************************************************************)
(* Geometry (chemistry utilities)                                          *)
(*                                                                         *)
(* The geometry functions are computed in exact arithmetic.  A coordinate  *)
(* is an integer.  A computed number is a fraction <<n, d>> in lowest      *)
(* terms with d > 0; Infinity is <<1, 0>>, -Infinity is <<-1, 0>> and the   *)
(* NaN of a division 0 / 0 is <<0, 0>>.  Math.sqrt(v) is the non-negative  *)
(* number whose square is v and is kept as [squared |-> v]; an angle in    *)
(* degrees is kept as the cosine (acos) or the direction (atan2) that      *)
(* determines it.                                                          *)
(***************************************************************************)

Abs(v) == IF v < 0 THEN -v ELSE v

Sgn(v) == IF v < 0 THEN -1 ELSE IF v > 0 THEN 1 ELSE 0

RECURSIVE GCD(_, _)
GCD(a, b) == IF b = 0 THEN a ELSE GCD(b, a % b)

\* n / d with common divisor g, in lowest terms.
Lowest(n, d, g) == <<(Sgn(d) * n) \div g, Abs(d) \div g>>

\* n / d as JavaScript divides numbers: v / 0 is an infinity, 0 / 0 is NaN.
Frac(n, d) == IF d = 0 THEN <<Sgn(n), 0>> ELSE Lowest(n, d, GCD(Abs(n), Abs(d)))

Fin(v) == <<v, 1>>

Infinity == <<1, 0>>

NaNQ == <<0, 0>>

\* a + b
Plus(a, b) ==
  IF a[2] = 0 /\ b[2] = 0 THEN (IF a = b THEN a ELSE NaNQ)
  ELSE IF a[2] = 0 THEN a
  ELSE IF b[2] = 0 THEN b
  ELSE Frac(a[1] * b[2] + b[1] * a[2], a[2] * b[2])

Negate(a) == <<-a[1], a[2]>>

\* a - b
Minus(a, b) == Plus(a, Negate(b))

\* a / 2
Half(a) == IF a[2] = 0 THEN a ELSE Frac(a[1], 2 * a[2])

\* a < b on numbers other than NaN.
LessQ(a, b) ==
  IF a[2] = 0 /\ b[2] = 0 THEN a[1] < b[1] ELSE a[1] * b[2] < b[1] * a[2]

\* Math.min(a, b) and Math.max(a, b): NaN when either is NaN.
MathMin(a, b) ==
  IF a = NaNQ \/ b = NaNQ THEN NaNQ ELSE IF LessQ(b, a) THEN b ELSE a

MathMax(a, b) ==
  IF a = NaNQ \/ b = NaNQ THEN NaNQ ELSE IF LessQ(a, b) THEN b ELSE a

\* Math.sqrt(v)
Root(v) == [squared |-> v]

\* The sum of the squares of the components of a vector.
NormSquared(v) == Square(v[1]) + Square(v[2]) + Square(v[3])

\* The vector from q to p.
Sub3(p, q) == <<p[1] - q[1], p[2] - q[2], p[3] - q[3]>>

distance3D(p1, p2) == Root(NormSquared(Sub3(p2, p1)))

\* midpoint3D on computed numbers.
midpoint3D(p1, p2) == [i \in 1..3 |-> Half(Plus(p1[i], p2[i]))]

\* The atomic masses of data/elements.json, in thousandths of a unit, for
\* the elements that occur in the inputs.
elements == {<<<<"H">>, 1008>>, <<<<"C">>, 12011>>, <<<<"O">>, 15999>>}

\* elements[symbol]?.atomicMass ?? 0
getAtomicMass(symbol) ==
  IF \E e \in elements : e[1] = symbol
  THEN (CHOOSE e \in elements : e[1] = symbol)[2]
  ELSE 0

RECURSIVE TotalMass(_, _)
\* totalMass after the first n atoms.
TotalMass(atoms, n) ==
  IF n = 0 THEN 0
  ELSE TotalMass(atoms, n - 1) + getAtomicMass(atoms[n].element)

RECURSIVE Moment(_, _, _)
\* cx, cy, cz (i = 1, 2, 3) after the first n atoms.
Moment(atoms, n, i) ==
  IF n = 0 THEN 0
  ELSE Moment(atoms, n - 1, i) + atoms[n].position[i] * getAtomicMass(atoms[n].element)

\* [cx / totalMass, cy / totalMass, cz / totalMass]
MassCentre(atoms) ==
  [i \in 1..3 |-> Frac(Moment(atoms, Len(atoms), i), TotalMass(atoms, Len(atoms)))]

Origin == <<Fin(0), Fin(0), Fin(0)>>

calculateCenterOfMass(atoms) ==
  IF TotalMass(atoms, Len(atoms)) = 0 THEN Origin ELSE MassCentre(atoms)

RECURSIVE MinFold(_, _, _)
\* min[i] after the first n atoms.
MinFold(atoms, n, i) ==
  IF n = 0 THEN Infinity
  ELSE MathMin(MinFold(atoms, n - 1, i), Fin(atoms[n].position[i]))

RECURSIVE MaxFold(_, _, _)
\* max[i] after the first n atoms.
MaxFold(atoms, n, i) ==
  IF n = 0 THEN Negate(Infinity)
  ELSE MathMax(MaxFold(atoms, n - 1, i), Fin(atoms[n].position[i]))

\* The box returned for the corners min and max.
Box(min, max) ==
  [min |-> min,
   max |-> max,
   size |-> [i \in 1..3 |-> Minus(max[i], min[i])],
   center |-> midpoint3D(min, max)]

\* The corners after the loop over the atoms.
BoxOfAtoms(atoms) ==
  Box([i \in 1..3 |-> MinFold(atoms, Len(atoms), i)],
      [i \in 1..3 |-> MaxFold(atoms, Len(atoms), i)])

calculateBoundingBox(atoms) ==
  IF Len(atoms) = 0 THEN Box(Origin, Origin) ELSE BoxOfAtoms(atoms)

\* atoms[i] is an atom (0-based i), not undefined.
HasAtom(atoms, i) == i >= 0 /\ i < Len(atoms)

calculateBondLength(atoms, bond) ==
  IF ~HasAtom(atoms, bond.atomIndex1) \/ ~HasAtom(atoms, bond.atomIndex2)
  THEN Root(0)
  ELSE distance3D(atoms[bond.atomIndex1 + 1].position,
                  atoms[bond.atomIndex2 + 1].position)

\* v1[0] * v2[0] + v1[1] * v2[1] + v1[2] * v2[2] in calculateAngle.
DotOf(v1, v2) == v1[1] * v2[1] + v1[2] * v2[2] + v1[3] * v2[3]

\* (Math.acos(c) * 180) / Math.PI for the cosine c = d / sqrt(m): the angle
\* is determined by the sign of c and by its square.  In exact arithmetic
\* |c| <= 1 and the clamp to [-1, 1] changes nothing.
ArcCos(d, m) == [cosSign |-> Sgn(d), cosSquared |-> Frac(d * d, m)]

\* 0 degrees: the angle of cosine 1.
ZeroDegrees == ArcCos(1, 1)

\* calculateAngle on the vectors v1 and v2, without the test of the
\* magnitudes.
AngleBetween(v1, v2) == ArcCos(DotOf(v1, v2), NormSquared(v1) * NormSquared(v2))

\* calculateAngle without the test of the magnitudes.
calculateAngleNoTest(p1, p2, p3) == AngleBetween(Sub3(p1, p2), Sub3(p3, p2))

calculateAngle(p1, p2, p3) ==
  IF NormSquared(Sub3(p1, p2)) = 0 \/ NormSquared(Sub3(p3, p2)) = 0
  THEN ZeroDegrees
  ELSE AngleBetween(Sub3(p1, p2), Sub3(p3, p2))

(***************************************************************************)
(* The dihedral keeps the sign of a zero, which Math.atan2 reads: a number *)
(* is <<v, s>> with s = 1 for the negative zero and s = 0 otherwise.       *)
(***************************************************************************)

\* The number v, v an integer.
Float(v) == <<v, 0>>

NegativeZero == <<0, 1>>

\* The sign bit of a number.
SignBit(a) == a[1] < 0 \/ a = NegativeZero

\* A zero with the sign bit neg.
Zero(neg) == IF neg THEN NegativeZero ELSE Float(0)

\* a * b
Times(a, b) ==
  IF a[1] * b[1] = 0 THEN Zero(SignBit(a) # SignBit(b)) ELSE Float(a[1] * b[1])

\* a + b
Sum(a, b) ==
  IF a[1] + b[1] = 0 THEN Zero(a = NegativeZero /\ b = NegativeZero)
  ELSE Float(a[1] + b[1])

\* -a
Opposite(a) == IF a[1] = 0 THEN Zero(a # NegativeZero) ELSE Float(-a[1])

\* a - b
Difference(a, b) == Sum(a, Opposite(b))

\* The vector from q to p as numbers: a zero difference is +0.
Vector(p, q) == [i \in 1..3 |-> Float(p[i] - q[i])]

\* Helper: dot product
dot(a, b) == Sum(Sum(Times(a[1], b[1]), Times(a[2], b[2])), Times(a[3], b[3]))

\* Helper: cross product
cross(a, b) ==
  <<Difference(Times(a[2], b[3]), Times(a[3], b[2])),
    Difference(Times(a[3], b[1]), Times(a[1], b[3])),
    Difference(Times(a[1], b[2]), Times(a[2], b[1]))>>

\* b2[0] ** 2 + b2[1] ** 2 + b2[2] ** 2
MagSquared(b) == Square(b[1][1]) + Square(b[2][1]) + Square(b[3][1])

\* An angle in degrees, for Math.atan2(y, x): sign is the sign of the
\* angle, cosSign the sign of x and tanSquared the square of y / x.
Degrees(sign, cosSign, tanSquared) ==
  [sign |-> sign, cosSign |-> cosSign, tanSquared |-> tanSquared]

\* -a for an angle a.
NegateDegrees(a) == Degrees(-a.sign, a.cosSign, a.tanSquared)

Degrees0 == Degrees(0, 1, Fin(0))

Degrees180 == Degrees(1, -1, Fin(0))

DegreesNaN == Degrees(0, 0, NaNQ)

\* Math.atan2 without the sign of y: the angle between the normals.
ArcTan2Magnitude(yy, x, m) ==
  IF m = 0 THEN DegreesNaN
  ELSE IF yy[1] = 0 THEN (IF ~SignBit(x) THEN Degrees0 ELSE Degrees180)
  ELSE Degrees(1, Sgn(x[1]), Frac(Square(yy[1]), m * Square(x[1])))

\* (Math.atan2(y, x) * 180) / Math.PI for y = yy / sqrt(m).  m = 0 makes
\* every component of b2Norm the NaN of 0 / 0, and y with them.  For a zero
\* y the result is 0 when x has no sign bit, and 180 with the sign of y
\* when it has one.
ArcTan2(yy, x, m) ==
  IF m = 0 THEN DegreesNaN
  ELSE IF yy[1] = 0
    THEN (IF ~SignBit(x) THEN Degrees0
          ELSE IF yy = NegativeZero THEN NegateDegrees(Degrees180) ELSE Degrees180)
  ELSE Degrees(Sgn(yy[1]), Sgn(x[1]), Frac(Square(yy[1]), m * Square(x[1])))

\* calculateDihedral on b2 and the normals n1, n2: x = n1 . n2 and
\* y = (n1 x b2 / |b2|) . n2.  The components of b2 / |b2| have the sign
\* bits of those of b2, so that y * |b2| is (n1 x b2) . n2.
Torsion(b2, n1, n2) == ArcTan2(dot(cross(n1, b2), n2), dot(n1, n2), MagSquared(b2))

\* calculateDihedral on the vectors b1, b2, b3.
DihedralOf(b1, b2, b3) == Torsion(b2, cross(b1, b2), cross(b2, b3))

calculateDihedral(p1, p2, p3, p4) ==
  DihedralOf(Vector(p2, p1), Vector(p3, p2), Vector(p4, p3))

(***************************************************************************)
(* Molecular formula (chemistry utilities)                                 *)
(*                                                                         *)
(* A count is the integer mantissa * 10^exponent, which covers the         *)
(* integers at which Number.prototype.toString changes its notation.       *)
(***************************************************************************)

Scaled(m, e) == [mantissa |-> m, exponent |-> e]

\* The integer v.
Count(v) == Scaled(v, 0)

RECURSIVE Zeros(_)
\* k characters '0'.
Zeros(k) == IF k = 0 THEN <<>> ELSE <<"0">> \o Zeros(k - 1)

\* The digits ds of the mantissa as d.ddd, without a point after a single
\* digit.
Pointed(ds) == IF Len(ds) = 1 THEN ds ELSE <<ds[1], ".">> \o Tail(ds)

\* n.toString() for the digits ds of the mantissa (which does not end in 0
\* when e > 0) and the exponent e: decimal digits up to 21 of them, the
\* exponent notation d.ddde+x from 10^21.
NotationOf(ds, e) ==
  IF Len(ds) + e <= 21 THEN ds \o Zeros(e)
  ELSE Pointed(ds) \o <<"e","+">> \o NatToStr(Len(ds) + e - 1)

\* n.toString() for an integer n >= 0.
toString(n) ==
  IF n.mantissa = 0 THEN <<"0">> ELSE NotationOf(NatToStr(n.mantissa), n.exponent)

subscripts == <<"₀", "₁", "₂", "₃", "₄", "₅", "₆", "₇", "₈", "₉">>

\* subscripts[i] followed by join(''): undefined, which subscripts[NaN] is,
\* joins as the empty string.
SubscriptAt(i) == IF isNaN(i) \/ Val(i) < 0 \/ Val(i) > 9 THEN <<>> ELSE <<subscripts[Val(i) + 1]>>

RECURSIVE SubscriptEach(_, _)
\* .map((d) => subscripts[parseInt(d)]).join('') on the first k characters.
SubscriptEach(s, k) ==
  IF k = 0 THEN <<>> ELSE SubscriptEach(s, k - 1) \o SubscriptAt(parseInt(<<s[k]>>))

\* subscriptNumber on the text of the number.
SubscriptText(s) == SubscriptEach(s, Len(s))

subscriptNumber(n) == SubscriptText(toString(n))

\* subscripts.indexOf(c)
IndexOfSubscript(c) ==
  IF \E i \in 1..10 : subscripts[i] = c
  THEN (CHOOSE i \in 1..10 : subscripts[i] = c) - 1
  ELSE -1

\* The character c whatever idx is.
DigitOrSameKept(c, idx) == <<c>>

\* idx >= 0 ? idx.toString() : c
DigitOrSame(c, idx) == IF idx >= 0 THEN NatToStr(idx) ELSE <<c>>

RECURSIVE fromSubscript(_)
fromSubscript(str) ==
  IF str = <<>> THEN <<>>
  ELSE fromSubscript(SubSeq(str, 1, Len(str) - 1))
         \o DigitOrSame(Last(str), IndexOfSubscript(Last(str)))

\* The UTF-16 code unit of a digit or a letter.
CodeUnit(c) ==
  IF \E i \in 1..10 : DIGITS[i] = c THEN 47 + (CHOOSE i \in 1..10 : DIGITS[i] = c)
  ELSE IF \E i \in 1..26 : UPPER[i] = c THEN 64 + (CHOOSE i \in 1..26 : UPPER[i] = c)
  ELSE 96 + (CHOOSE i \in 1..26 : LOWER[i] = c)

RECURSIVE Before(_, _)
\* a sorts before b in the default order of Array.prototype.sort: by code
\* units, a prefix before its extensions.
Before(a, b) ==
  IF b = <<>> THEN FALSE
  ELSE IF a = <<>> THEN TRUE
  ELSE IF a[1] # b[1] THEN CodeUnit(a[1]) < CodeUnit(b[1])
  ELSE Before(Tail(a), Tail(b))

RECURSIVE Sorted(_)
\* first, then the others of K sorted.
SortedFrom(first, K) == <<first>> \o Sorted(K \ {first})

\* .sort() of the distinct strings K.
Sorted(K) ==
  IF K = {} THEN <<>>
  ELSE SortedFrom(CHOOSE a \in K : \A b \in K \ {a} : Before(a, b), K)

\* counts[el] after the loop over the atoms: the number of atoms of el.
CountOf(atoms, el) == Cardinality({i \in 1..Len(atoms) : atoms[i].element = el})

\* Object.keys(counts): the elements of the atoms.
KeysOf(atoms) == {atoms[i].element : i \in 1..Len(atoms)}

\* orderedElements: C, H, then the other keys sorted.
orderedElements(K) ==
  (IF <<"C">> \in K THEN <<<<"C">>>> ELSE <<>>)
    \o (IF <<"H">> \in K THEN <<<<"H">>>> ELSE <<>>)
    \o Sorted(K \ {<<"C">>, <<"H">>})

\* One element of the formula, written with its count at every count.
FormulaTermCounted(el, count) == el \o subscriptNumber(Count(count))

\* count === 1 ? el : `${el}${subscriptNumber(count)}`
FormulaTerm(el, count) == IF count = 1 THEN el ELSE el \o subscriptNumber(Count(count))

RECURSIVE FormulaOf(_, _, _)
\* .map(...).join('') on the first k elements of ordered.
FormulaOf(atoms, ordered, k) ==
  IF k = 0 THEN <<>>
  ELSE FormulaOf(atoms, ordered, k - 1)
         \o FormulaTerm(ordered[k], CountOf(atoms, ordered[k]))

\* The formula for the ordered elements.
FormulaFor(atoms, ordered) == FormulaOf(atoms, ordered, Len(ordered))

calculateMolecularFormula(atoms) == FormulaFor(atoms, orderedElements(KeysOf(atoms)))

(***************************************************************************)
(* Molecule transformations (chemistry utilities)                          *)
(*                                                                         *)
(* Objects and arrays live in a heap, a sequence whose indices are their   *)
(* references: a molecule refers to its atoms array and its bonds array,   *)
(* the atoms array to its atoms, an atom to its position array.  A new     *)
(* object or array is appended to the heap.                                *)
(***************************************************************************)

\* The atoms of the molecule m, as calculateCenterOfMass reads them.
HeapAtoms(h, m) ==
  [i \in 1..Len(h[h[m].atoms]) |->
     [element |-> h[h[h[m].atoms][i]].element,
      position |-> h[h[h[h[m].atoms][i]].position]]]

\* { ...atom, position: [...] }: the new position array p and the new atom
\* with the other properties of the atom at a.
WithAtom(h, a, p) == Append(Append(h, p), [h[a] EXCEPT !.position = Len(h) + 1])

RECURSIVE MapAtoms(_, _, _, _)
\* The heap after .map() has made the first k new atoms, from the atoms at
\* src and the new positions pos.
MapAtoms(h, src, k, pos) ==
  IF k = 0 THEN h ELSE WithAtom(MapAtoms(h, src, k - 1, pos), src[k], pos[k])

\* { ...molecule, atoms }: the new atoms array of the n atoms made after
\* the heap had base objects, and the new molecule with the other
\* properties of m.
WithMolecule(h, m, base, n) ==
  Append(Append(h, [i \in 1..n |-> base + 2 * i]), [h[m] EXCEPT !.atoms = Len(h) + 1])

\* The heap after the transformation, and the reference it returns.
Returned(h) == [value |-> Len(h), heap |-> h]

\* The molecule m with the positions pos in new atoms.
Transformed(h, m, pos) ==
  Returned(WithMolecule(MapAtoms(h, h[h[m].atoms], Len(pos), pos), m, Len(h), Len(pos)))

\* atom.position[i] - center[i] for every atom.
Centered(atoms, center) ==
  [k \in 1..Len(atoms) |-> [i \in 1..3 |-> Minus(Fin(atoms[k].position[i]), center[i])]]

\* atom.position[i] * factor for every atom.
Scaled3(atoms, factor) ==
  [k \in 1..Len(atoms) |-> [i \in 1..3 |-> Fin(atoms[k].position[i] * factor)]]

RECURSIVE Overwritten(_, _, _, _)
\* The heap with the position arrays of the first k atoms at src
\* overwritten by pos.
Overwritten(h, src, k, pos) ==
  IF k = 0 THEN h
  ELSE [Overwritten(h, src, k - 1, pos) EXCEPT ![h[src[k]].position] = pos[k]]

\* centerMolecule that writes the positions into the molecule it is given.
centerMoleculeInPlace(h, m) ==
  [value |-> m,
   heap |-> Overwritten(h, h[h[m].atoms], Len(h[h[m].atoms]),
                        Centered(HeapAtoms(h, m), calculateCenterOfMass(HeapAtoms(h, m))))]

centerMolecule(h, m) ==
  Transformed(h, m, Centered(HeapAtoms(h, m), calculateCenterOfMass(HeapAtoms(h, m))))

scaleMolecule(h, m, factor) == Transformed(h, m, Scaled3(HeapAtoms(h, m), factor))

(***************************************************************************)
(* The molecule store                                                      *)
(*                                                                         *)
(* The state of the store is a record.  molecules, an object keyed by      *)
(* molecule id, is the sequence of its keys in insertion order, which is   *)
(* the order of Object.keys for keys that are not array indices; the       *)
(* molecules themselves are left out.  An id is a string; null is the      *)
(* empty string, which is no id of the model.                              *)
(***************************************************************************)

Null == ""

\* The keys of data/sampleMolecules.json.
sampleMolecules == <<"benzene", "water">>

\* The length recentMolecules is cut to.
RecentLimit == 10

\* list.filter((r) => r !== id)
Without(list, id) == SelectSeq(list, LAMBDA r : r # id)

\* list.slice(0, n)
Slice(list, n) == SubSeq(list, 1, IF n < Len(list) THEN n ELSE Len(list))

\* The state the store is created with.
InitialStore ==
  [molecules |-> sampleMolecules, selectedMoleculeId |-> "benzene", recentMolecules |-> <<>>]

\* selectMolecule that keeps an earlier entry of the id.
selectMoleculeNoFilter(state, id) ==
  [state EXCEPT !.selectedMoleculeId = id,
                !.recentMolecules = Slice(<<id>> \o state.recentMolecules, RecentLimit)]

selectMolecule(state, id) ==
  [state EXCEPT !.selectedMoleculeId = id,
                !.recentMolecules =
                  Slice(<<id>> \o Without(state.recentMolecules, id), RecentLimit)]

\* { ...state.molecules, [molecule.id]: molecule }: a key the object has
\* keeps its place, a new key comes last.
addMolecule(state, id) ==
  [state EXCEPT !.molecules =
     IF \E k \in DOMAIN state.molecules : state.molecules[k] = id
     THEN state.molecules
     ELSE Append(state.molecules, id)]

\* Object.keys(rest)[0] || null
FirstKey(rest) == IF rest = <<>> THEN Null ELSE rest[1]

\* removeMolecule, rest being the molecules without the id.
RemovedFrom(state, id, rest) ==
  [molecules |-> rest,
   selectedMoleculeId |->
     IF state.selectedMoleculeId = id THEN FirstKey(rest) ELSE state.selectedMoleculeId,
   recentMolecules |-> Without(state.recentMolecules, id)]

removeMolecule(state, id) == RemovedFrom(state, id, Without(state.molecules, id))

clearMolecules(state) == InitialStore

(***************************************************************************)
(* Inputs: file contents and file names                                    *)
(***************************************************************************)

\* The number of variable atom, bond or CONECT records in a generated file.
MaxRecords == 2

\* The last value of the clock Date.now() reads.
MaxNow == 1

RECURSIVE JoinLines(_)
\* lines.join('\n')
JoinLines(ls) ==
  IF Len(ls) = 0 THEN <<>>
  ELSE IF Len(ls) = 1 THEN ls[1]
  ELSE JoinLines(SubSeq(ls, 1, Len(ls) - 1)) \o <<"\n">> \o ls[Len(ls)]

SeqsUpTo(P, n) == UNION {[1..k -> P] : k \in 0..n}

Spaces(n) == [i \in 1..n |-> " "]

PadL(s, w) == Spaces(w - Len(s)) \o s

PadR(s, w) == s \o Spaces(w - Len(s))

\* ---- XYZ ----

\* XYZ_O is the text "O 0 0 0"
XYZ_O == <<"O"," ","0"," ","0"," ","0">>

\* XYZ_H1 is the text "H 0.96 0 0"
XYZ_H1 == <<"H"," ","0",".","9","6"," ","0"," ","0">>

\* XYZ_H2 is the text "H -0.24 0.93 0"
XYZ_H2 == <<"H"," ","-","0",".","2","4"," ","0",".","9","3"," ","0">>

\* Too few tokens.
\* XYZ_SHORT is the text "H 1 2"
XYZ_SHORT == <<"H"," ","1"," ","2">>

\* A coordinate parseFloat cannot read.
\* XYZ_NAN is the text "H x 0 0"
XYZ_NAN == <<"H"," ","x"," ","0"," ","0">>

XYZ_POOL == {XYZ_O, XYZ_H1, XYZ_SHORT, XYZ_NAN}

XYZ_WATER == <<XYZ_O, XYZ_H1, XYZ_H2>>

\* Header lines: a count, a smaller count, a count followed by text, text,
\* and a negative count.
XYZ_HEADERS == {<<"3">>, <<"1">>, <<"3","x">>, <<"x">>, <<"-","1">>}

COMMENTS == {<<"w","a","t","e","r">>, <<>>}

\* XYZ_H0 is the text "H 0 0 0"
XYZ_H0 == <<"H"," ","0"," ","0"," ","0">>

\* XYZ_H074 is the text "H 0.74 0 0"
XYZ_H074 == <<"H"," ","0",".","7","4"," ","0"," ","0">>

\* XYZ_H12 is the text "H 1.2 0 0"
XYZ_H12 == <<"H"," ","1",".","2"," ","0"," ","0">>

\* XYZ_H5 is the text "H 5.0 0 0"
XYZ_H5 == <<"H"," ","5",".","0"," ","0"," ","0">>

\* XYZ_O15 is the text "O 1.5 0 0"
XYZ_O15 == <<"O"," ","1",".","5"," ","0"," ","0">>

\* An element without an entry in the table of bond lengths.
\* XYZ_X0 is the text "X 0 0 0"
XYZ_X0 == <<"X"," ","0"," ","0"," ","0">>

\* XYZ_X19 is the text "X 1.9 0 0"
XYZ_X19 == <<"X"," ","1",".","9"," ","0"," ","0">>

\* XYZ_X21 is the text "X 2.1 0 0"
XYZ_X21 == <<"X"," ","2",".","1"," ","0"," ","0">>

\* Pairs of atoms at distances below and above the bonding threshold of
\* their elements.
XYZ_PAIRS ==
  {<<XYZ_H0, XYZ_H074>>, <<XYZ_H0, XYZ_H12>>, <<XYZ_H0, XYZ_H5>>,
   <<XYZ_H0, XYZ_O15>>, <<XYZ_X0, XYZ_X19>>, <<XYZ_X0, XYZ_X21>>}

XYZFile(header, comment, atomLines) == JoinLines(<<header, comment>> \o atomLines)

\* "3\nwater\nO 0 0 0\nH 0.96 0 0\nH -0.24 0.93 0"
WaterXYZ == XYZFile(<<"3">>, <<"w","a","t","e","r">>, XYZ_WATER)

XYZContents ==
  {XYZFile(h, cm, XYZ_WATER) : h \in XYZ_HEADERS, cm \in COMMENTS}
  \cup {XYZFile(<<"2">>, <<"w","a","t","e","r">>, b) : b \in SeqsUpTo(XYZ_POOL, MaxRecords)}
  \cup {XYZFile(<<"2">>, <<"p","a","i","r">>, b) : b \in XYZ_PAIRS}

\* ---- MOL / SDF ----

\* MOL_O is the text "    0.0000    0.0000    0.0000 O   0  0"
MOL_O == <<" "," "," "," ","0",".","0","0","0","0"," "," "," "," ","0",".","0","0","0","0"," "," "," "," ","0",".","0","0","0","0"," ","O"," "," "," ","0"," "," ","0">>

\* MOL_H1 is the text "    0.9600    0.0000    0.0000 H   0  0"
MOL_H1 == <<" "," "," "," ","0",".","9","6","0","0"," "," "," "," ","0",".","0","0","0","0"," "," "," "," ","0",".","0","0","0","0"," ","H"," "," "," ","0"," "," ","0">>

\* MOL_H2 is the text "   -0.2400    0.9300    0.0000 H   0  0"
MOL_H2 == <<" "," "," ","-","0",".","2","4","0","0"," "," "," "," ","0",".","9","3","0","0"," "," "," "," ","0",".","0","0","0","0"," ","H"," "," "," ","0"," "," ","0">>

\* MOL_SHORT is the text "    0.0000    0.0000 H"
MOL_SHORT == <<" "," "," "," ","0",".","0","0","0","0"," "," "," "," ","0",".","0","0","0","0"," ","H">>

\* MOL_NAN is the text "    x    0.0000    0.0000 H   0  0"
MOL_NAN == <<" "," "," "," ","x"," "," "," "," ","0",".","0","0","0","0"," "," "," "," ","0",".","0","0","0","0"," ","H"," "," "," ","0"," "," ","0">>

MOL_POOL == {MOL_O, MOL_H1, MOL_SHORT, MOL_NAN}

MOL_WATER == <<MOL_O, MOL_H1, MOL_H2>>

\* BOND_12 is the text "  1  2  1  0"
BOND_12 == <<" "," ","1"," "," ","2"," "," ","1"," "," ","0">>

\* BOND_13 is the text "  1  3  1  0"
BOND_13 == <<" "," ","1"," "," ","3"," "," ","1"," "," ","0">>

\* BOND_23 is the text "  2  3  1  0"
BOND_23 == <<" "," ","2"," "," ","3"," "," ","1"," "," ","0">>

\* The pair 1-2 again, reversed, as a double bond.
\* BOND_21 is the text "  2  1  2  0"
BOND_21 == <<" "," ","2"," "," ","1"," "," ","2"," "," ","0">>

\* Both ends the same atom.
\* BOND_11 is the text "  1  1  1  0"
BOND_11 == <<" "," ","1"," "," ","1"," "," ","1"," "," ","0">>

\* An index past the atom block.
\* BOND_19 is the text "  1  9  1  0"
BOND_19 == <<" "," ","1"," "," ","9"," "," ","1"," "," ","0">>

\* An index parseInt cannot read.
\* BOND_NAN is the text "  x  2  1  0"
BOND_NAN == <<" "," ","x"," "," ","2"," "," ","1"," "," ","0">>

\* Too few tokens.
\* BOND_SHORT is the text "  1  2"
BOND_SHORT == <<" "," ","1"," "," ","2">>

\* Order 0, order 4 and an order parseInt cannot read.
\* BOND_ORDER0 is the text "  1  2  0  0"
BOND_ORDER0 == <<" "," ","1"," "," ","2"," "," ","0"," "," ","0">>

\* BOND_ORDER4 is the text "  1  2  4  0"
BOND_ORDER4 == <<" "," ","1"," "," ","2"," "," ","4"," "," ","0">>

\* BOND_ORDERX is the text "  1  2  x  0"
BOND_ORDERX == <<" "," ","1"," "," ","2"," "," ","x"," "," ","0">>

BOND_POOL == {BOND_12, BOND_11, BOND_19, BOND_NAN}

BOND_SINGLES == {BOND_21, BOND_SHORT, BOND_ORDER0, BOND_ORDER4, BOND_ORDERX}

\* The counts line of a well-formed block with n atoms and m bonds.
CountsLine(n, m) ==
  PadL(NatToStr(n), 3) \o PadL(NatToStr(m), 3) \o <<" "," ","0"," "," ","0"," "," ","0"," "," ","0"," "," ","0"," "," ","0"," "," ","0"," "," ","0","9","9","9"," ","V","2","0","0","0">>

\* Counts lines for a block of 3 atoms and 2 bonds: right, one token only,
\* unreadable tokens, negative counts, a count followed by text, and counts
\* smaller and larger than the block.
COUNTS_POOL ==
  {CountsLine(3, 2), <<" "," ","3">>, <<" "," ","x"," "," ","2">>, <<" "," ","3"," "," ","x">>, <<" ","-","1"," "," ","0">>, <<" ","-","5"," "," ","2">>,
   <<" ","3","x"," "," ","2">>, <<" "," ","2"," "," ","2">>, <<" "," ","5"," "," ","2">>}

\* Atom blocks of four lines whose first or last line is skipped.
MOL_SKIPS == {<<MOL_NAN, MOL_O, MOL_H1, MOL_H2>>, <<MOL_O, MOL_H1, MOL_H2, MOL_NAN>>}

MOLFile(nameLine, counts, atomLines, bondLines) ==
  JoinLines(<<nameLine, <<" "," ","M","o","l","e","c","u","L","a","b">>, <<>>, counts>> \o atomLines \o bondLines
            \o <<<<"M"," "," ","E","N","D">>>>)

WaterMOL == MOLFile(<<"w","a","t","e","r">>, CountsLine(3, 2), MOL_WATER, <<BOND_12, BOND_13>>)

\* A block whose name line is blank.
NamelessMOL == MOLFile(<<>>, CountsLine(3, 2), MOL_WATER, <<BOND_12, BOND_13>>)

WaterSDF == WaterMOL \o <<"\n","$","$","$","$","\n">>

MOLContents ==
  {MOLFile(<<"w","a","t","e","r">>, c, MOL_WATER, <<BOND_12, BOND_13>>) : c \in COUNTS_POOL}
  \cup {MOLFile(<<"w","a","t","e","r">>, CountsLine(Len(a), 1), a, <<BOND_12>>) :
          a \in SeqsUpTo(MOL_POOL, MaxRecords)}
  \cup {MOLFile(<<"w","a","t","e","r">>, CountsLine(3, Len(b)), MOL_WATER, b) :
          b \in SeqsUpTo(BOND_POOL, MaxRecords)}
  \cup {MOLFile(<<"w","a","t","e","r">>, CountsLine(3, 2), MOL_WATER, <<BOND_13, b>>) :
          b \in BOND_SINGLES}
  \cup {MOLFile(<<"w","a","t","e","r">>, CountsLine(4, 1), a, <<b>>) :
          a \in MOL_SKIPS, b \in {BOND_12, BOND_23}}
  \cup {NamelessMOL, <<"\n">> \o WaterMOL}

\* A first block that ends after its counts line; the atom line it counts
\* comes after the delimiter.
TruncatedSDF ==
  JoinLines(<<<<"w","a","t","e","r">>, <<" "," ","M","o","l","e","c","u","L","a","b">>, <<>>, CountsLine(1, 0), <<"$","$","$","$">>, MOL_O, <<"M"," "," ","E","N","D">>>>)

SDFContents ==
  {WaterSDF,
   WaterSDF \o MOLFile(<<"o","t","h","e","r">>, CountsLine(1, 0), <<MOL_O>>, <<>>) \o <<"\n","$","$","$","$","\n">>,
   NamelessMOL \o <<"\n","$","$","$","$","\n">>,
   <<"$","$","$","$","\n">> \o WaterMOL,
   TruncatedSDF,
   <<" ","\n","$","$","$","$","\n">>}

\* ---- PDB ----

\* An ATOM / HETATM record in the fixed columns of the format; without an
\* element symbol the line ends after the coordinates.
AtomRecord(rec, serial, atomName, x, y, z, element) ==
  PadR(rec, 6) \o PadL(serial, 5) \o <<" ">> \o PadR(atomName, 4)
  \o Spaces(14) \o PadL(x, 8) \o PadL(y, 8) \o PadL(z, 8)
  \o (IF element = <<>> THEN <<>> ELSE Spaces(22) \o PadL(element, 2))

PDB_O == AtomRecord(<<"A","T","O","M">>, <<"1">>, <<"O">>, <<"0",".","0","0">>, <<"0",".","0","0">>, <<"0",".","0","0">>, <<"O">>)

PDB_H1 == AtomRecord(<<"H","E","T","A","T","M">>, <<"2">>, <<"1","H">>, <<"0",".","9","6">>, <<"0",".","0","0">>, <<"0",".","0","0">>, <<>>)

\* Serial 5 after serial 2: the numbering has a gap.
PDB_H5 == AtomRecord(<<"A","T","O","M">>, <<"5">>, <<"H","2">>, <<"-","0",".","2","4">>, <<"0",".","9","3">>, <<"0",".","0","0">>, <<"H">>)

\* Unreadable x coordinate.
PDB_NAN == AtomRecord(<<"A","T","O","M">>, <<"3">>, <<"H","3">>, <<"x">>, <<"0",".","0","0">>, <<"0",".","0","0">>, <<"H">>)

\* Serial 1 again.
PDB_O1 == AtomRecord(<<"A","T","O","M">>, <<"1">>, <<"O">>, <<"3",".","0","0">>, <<"0",".","0","0">>, <<"0",".","0","0">>, <<"O">>)

PDB_POOL == {PDB_O, PDB_H1, PDB_NAN, PDB_O1}

PDB_WATER == <<PDB_O, PDB_H1, PDB_H5>>

\* CONECT_12 is the text "CONECT    1    2"
CONECT_12 == <<"C","O","N","E","C","T"," "," "," "," ","1"," "," "," "," ","2">>

\* CONECT_21 is the text "CONECT    2    1"
CONECT_21 == <<"C","O","N","E","C","T"," "," "," "," ","2"," "," "," "," ","1">>

\* CONECT_15 is the text "CONECT    1    5"
CONECT_15 == <<"C","O","N","E","C","T"," "," "," "," ","1"," "," "," "," ","5">>

\* CONECT_NAN is the text "CONECT    1    x"
CONECT_NAN == <<"C","O","N","E","C","T"," "," "," "," ","1"," "," "," "," ","x">>

\* CONECT_11 is the text "CONECT    1    1"
CONECT_11 == <<"C","O","N","E","C","T"," "," "," "," ","1"," "," "," "," ","1">>

\* CONECT_BARE is the text "CONECT"
CONECT_BARE == <<"C","O","N","E","C","T">>

\* CONECT_123 is the text "CONECT    1    2    3"
CONECT_123 == <<"C","O","N","E","C","T"," "," "," "," ","1"," "," "," "," ","2"," "," "," "," ","3">>

\* CONECT_9 is the text "CONECT    8    9"
CONECT_9 == <<"C","O","N","E","C","T"," "," "," "," ","8"," "," "," "," ","9">>

CONECT_POOL == {CONECT_12, CONECT_21, CONECT_15, CONECT_NAN}

CONECT_SINGLES == {CONECT_11, CONECT_BARE, CONECT_123, CONECT_9}

\* HEADER_LINE is the text "HEADER    WATER MOLECULE"
HEADER_LINE == <<"H","E","A","D","E","R"," "," "," "," ","W","A","T","E","R"," ","M","O","L","E","C","U","L","E">>

\* HEADER_BLANK is the text "HEADER"
HEADER_BLANK == <<"H","E","A","D","E","R">>

\* COMPND_LINE is the text "COMPND    MOLECULE: DIHYDROGEN; OXIDE;"
COMPND_LINE == <<"C","O","M","P","N","D"," "," "," "," ","M","O","L","E","C","U","L","E",":"," ","D","I","H","Y","D","R","O","G","E","N",";"," ","O","X","I","D","E",";">>

\* COMPND_OTHER is the text "COMPND    CHAIN: A;"
COMPND_OTHER == <<"C","O","M","P","N","D"," "," "," "," ","C","H","A","I","N",":"," ","A",";">>

\* The title records a file starts with.
PDB_HEADS ==
  {<<>>, <<HEADER_LINE>>, <<HEADER_BLANK>>, <<COMPND_LINE>>,
   <<HEADER_LINE, COMPND_LINE>>, <<COMPND_LINE, HEADER_LINE>>,
   <<COMPND_OTHER, HEADER_LINE>>, <<HEADER_BLANK, COMPND_LINE>>}

PDBFile(head, atomLines, conectLines) ==
  JoinLines(head \o atomLines \o conectLines \o <<<<"E","N","D">>>>)

WaterPDB == PDBFile(<<HEADER_LINE>>, PDB_WATER, <<>>)

PDBContents ==
  {PDBFile(h, PDB_WATER, <<>>) : h \in PDB_HEADS}
  \cup {PDBFile(<<>>, a, <<CONECT_12>>) : a \in SeqsUpTo(PDB_POOL, MaxRecords)}
  \cup {PDBFile(<<>>, PDB_WATER, cs) : cs \in SeqsUpTo(CONECT_POOL, MaxRecords)}
  \cup {PDBFile(<<>>, PDB_WATER, <<cs>>) : cs \in CONECT_SINGLES}

\* ---- neither ----

OtherContents == {<<>>, <<" ","\n"," ">>, <<"h","e","l","l","o"," ","w","o","r","l","d">>, <<"3">>, <<"3","\n","w","a","t","e","r">>}

Contents == XYZContents \cup MOLContents \cup SDFContents \cup PDBContents \cup OtherContents

\* The contents every file name is tried with.
Fixtures == {WaterXYZ, WaterMOL, WaterSDF, WaterPDB, <<"h","e","l","l","o"," ","w","o","r","l","d">>}

\* File names: recognized extensions (in either case, after several dots),
\* an unrecognized extension, and names without any '.'.
Filenames ==
  {<<"s","a","m","p","l","e",".","p","d","b">>, <<"w",".","X","Y","Z">>, <<"w",".","m","o","l","2">>, <<"a",".","b",".","M","o","l">>, <<"w",".","s","d","f">>, <<"n","o","t","e","s",".","t","x","t">>,
   <<"w","a","t","e","r">>, <<"p","d","b">>}

\* (content, filename) pairs; the empty filename is the absent argument.
Inputs == (Contents \X {<<>>}) \cup (Fixtures \X Filenames)

(***************************************************************************)
(* The state machine: a caller that makes one call after another on its    *)
(* input while the clock runs                                              *)
(***************************************************************************)

NoResult == [pending |-> TRUE]

\* The molecule store, when the specification does not use it.
NoStore == [molecules |-> <<>>, selectedMoleculeId |-> "null", recentMolecules |-> <<>>]

\* The arguments of the geometry functions, when none is called.
NoArgs == [points |-> <<>>, atoms |-> <<>>, bond |-> <<>>]

Init ==
  /\ \E inp \in Inputs : content = inp[1] /\ filename = inp[2]
  /\ args = NoArgs
  /\ store = NoStore
  /\ now = 0
  /\ pc = "idle"
  /\ op = "none"
  /\ result = NoResult

\* The clock Date.now() reads advances between calls.
Tick ==
  /\ pc = "idle"
  /\ now < MaxNow
  /\ now' = now + 1
  /\ UNCHANGED <<content, filename, args, store, pc, op, result>>

Call(name, value) ==
  /\ pc = "idle"
  /\ pc' = "done"
  /\ op' = name
  /\ result' = value
  /\ UNCHANGED <<content, filename, args, store, now>>

CallDetectFormat == Call("detectFormat", [format |-> detectFormat(content, filename)])

CallParseXYZ == Call("parseXYZ", parseXYZ(content, filename, now))

CallParseMOL == Call("parseMOL", parseMOL(content, filename, now))

CallParsePDB == Call("parsePDB", parsePDB(content, filename, now))

CallParseSDF == Call("parseSDF", parseSDF(content, filename, now))

CallParseFile == Call("parseFile", parseFile(content, filename, now))

\* The caller takes the result and is ready for its next call.
Return ==
  /\ pc = "done"
  /\ pc' = "idle"
  /\ op' = "none"
  /\ result' = NoResult
  /\ UNCHANGED <<content, filename, args, store, now>>

Next ==
  \/ Tick
  \/ CallDetectFormat
  \/ CallParseXYZ
  \/ CallParseMOL
  \/ CallParsePDB
  \/ CallParseSDF
  \/ CallParseFile
  \/ Return

Spec == Init /\ [][Next]_vars


(***************************************************************************)
(* The geometry functions, called on points, atoms and a bond              *)
(***************************************************************************)

\* The longest atom list.
MaxAtoms == 2

\* Points: the corners of planar and non-planar four-point arrangements
\* about the axis from (0,0,0) to (1,0,0).
Points == {<<0, 0, 0>>, <<1, 0, 0>>, <<0, 1, 0>>, <<1, -1, 0>>, <<1, 1, 0>>, <<1, 0, 1>>}

\* Element symbols: two of the element table and one that is not in it.
Symbols == {<<"H">>, <<"O">>, <<"X","x">>}

\* The atom lists with the elements els at the first points of q.
AtomList(els, q) == [i \in 1..Len(els) |-> [element |-> els[i], position |-> q[i]]]

ElementLists == UNION {[1..n -> Symbols] : n \in 0..MaxAtoms}

\* Bonds: atom indices inside and outside every atom list.
Bonds ==
  {[atomIndex1 |-> a, atomIndex2 |-> b, order |-> 1] :
     a \in {-1, 0, 1}, b \in {1, MaxAtoms}}

\* The arguments: every four points, and every atom list and bond at two
\* points.
GeomInputs ==
  {[points |-> q, atoms |-> AtomList(els, q), bond |-> b] :
     q \in Points \X Points \X Points \X Points,
     els \in {<<>>},
     b \in {[atomIndex1 |-> 0, atomIndex2 |-> 1, order |-> 1]}}
  \cup
  {[points |-> q, atoms |-> AtomList(els, q), bond |-> b] :
     q \in Points \X Points \X {<<0, 0, 0>>} \X {<<0, 0, 0>>},
     els \in ElementLists,
     b \in Bonds}

GeomInit ==
  /\ content = <<>>
  /\ filename = <<>>
  /\ args \in GeomInputs
  /\ store = NoStore
  /\ now = 0
  /\ pc = "idle"
  /\ op = "none"
  /\ result = NoResult

Value(v) == [value |-> v]

CallDistance3D == Call("distance3D", Value(distance3D(args.points[1], args.points[2])))

CallMidpoint3D ==
  Call("midpoint3D", Value(midpoint3D([i \in 1..3 |-> Fin(args.points[1][i])],
                                      [i \in 1..3 |-> Fin(args.points[2][i])])))

CallCalculateCenterOfMass ==
  Call("calculateCenterOfMass", Value(calculateCenterOfMass(args.atoms)))

CallCalculateBoundingBox ==
  Call("calculateBoundingBox", Value(calculateBoundingBox(args.atoms)))

CallCalculateBondLength ==
  Call("calculateBondLength", Value(calculateBondLength(args.atoms, args.bond)))

CallCalculateAngle ==
  Call("calculateAngle",
       Value(calculateAngle(args.points[1], args.points[2], args.points[3])))

CallCalculateDihedral ==
  Call("calculateDihedral",
       Value(calculateDihedral(args.points[1], args.points[2], args.points[3],
                               args.points[4])))

GeomNext ==
  \/ CallDistance3D
  \/ CallMidpoint3D
  \/ CallCalculateCenterOfMass
  \/ CallCalculateBoundingBox
  \/ CallCalculateBondLength
  \/ CallCalculateAngle
  \/ CallCalculateDihedral
  \/ Return

GeomSpec == GeomInit /\ [][GeomNext]_vars

(***************************************************************************)
(* The formula functions, called on atoms, a count and a string            *)
(***************************************************************************)

\* The longest list of freely chosen elements.
MaxFormulaAtoms == 3

\* The largest count written in full.
MaxCount == 120

FormulaSymbols == {<<"C">>, <<"H">>, <<"O">>, <<"B">>, <<"C","l">>}

RECURSIVE Repeat(_, _)
\* k atoms of the element el.
Repeat(el, k) ==
  IF k = 0 THEN <<>>
  ELSE Repeat(el, k - 1) \o <<[element |-> el, position |-> <<0, 0, 0>>]>>

\* Atom lists: every list of up to MaxFormulaAtoms elements, and lists with
\* counts of two digits.
FormulaAtoms ==
  {AtomList(els, <<<<0, 0, 0>>, <<1, 0, 0>>, <<0, 1, 0>>, <<1, 1, 0>>>>) :
     els \in UNION {[1..n -> FormulaSymbols] : n \in 0..MaxFormulaAtoms}}
  \cup {Repeat(<<"O">>, 11) \o Repeat(<<"H">>, 10) \o Repeat(<<"C">>, 12),
        Repeat(<<"C","l">>, 10) \o Repeat(<<"B">>, 1)}

\* Counts: the integers up to MaxCount, and 10^20, 10^21 and 12 * 10^20.
Counts ==
  {Count(v) : v \in 0..MaxCount} \cup {Scaled(1, 20), Scaled(1, 21), Scaled(12, 20)}

\* Strings with and without subscript digits.
Strings ==
  {<<"H","₂","O">>, <<"H","2","O">>, <<"C","₁","₂","H","₂","₂","O","₁","₁">>, <<"₀","₉">>, <<"C","l">>, <<>>}

FormulaInputs ==
  {[atoms |-> a, n |-> Count(0), str |-> <<>>] : a \in FormulaAtoms}
  \cup {[atoms |-> <<>>, n |-> n, str |-> <<>>] : n \in Counts}
  \cup {[atoms |-> <<>>, n |-> Count(0), str |-> s] : s \in Strings}

FormulaInit ==
  /\ content = <<>>
  /\ filename = <<>>
  /\ args \in FormulaInputs
  /\ store = NoStore
  /\ now = 0
  /\ pc = "idle"
  /\ op = "none"
  /\ result = NoResult

CallCalculateMolecularFormula ==
  Call("calculateMolecularFormula", Value(calculateMolecularFormula(args.atoms)))

CallSubscriptNumber == Call("subscriptNumber", Value(subscriptNumber(args.n)))

CallFromSubscript == Call("fromSubscript", Value(fromSubscript(args.str)))

FormulaNext ==
  \/ CallCalculateMolecularFormula
  \/ CallSubscriptNumber
  \/ CallFromSubscript
  \/ Return

FormulaSpec == FormulaInit /\ [][FormulaNext]_vars

(***************************************************************************)
(* The transformations, called on a molecule of the heap                   *)
(***************************************************************************)

\* The positions of the atoms of a molecule.
Sites == {<<0, 0, 0>>, <<1, 0, 0>>, <<1, -1, 0>>}

\* The factors of scaleMolecule.
Factors == {0, 2, -1}

\* The bonds arrays: none, and one bond between the first two atoms.
BondArrays == {<<>>, <<[id |-> <<"b","1">>, atomIndex1 |-> 0, atomIndex2 |-> 1, order |-> 1]>>}

RECURSIVE HeapOfAtoms(_, _)
\* The heap with the position array and the atom of each of the first k
\* atoms: atom k at 2k, its position at 2k - 1.
HeapOfAtoms(atoms, k) ==
  IF k = 0 THEN <<>>
  ELSE HeapOfAtoms(atoms, k - 1)
         \o <<atoms[k].position,
              [id |-> atoms[k].element \o NatToStr(k), element |-> atoms[k].element,
               position |-> 2 * k - 1]>>

\* The heap of a molecule of n atoms: its atoms, the atoms array, the bonds
\* array and the molecule, which is the last object.
HeapOfMolecule(atoms, n, bonds) ==
  HeapOfAtoms(atoms, n)
    \o <<[i \in 1..n |-> 2 * i], bonds,
         [id |-> <<"w","a","t","e","r">>, name |-> <<"W","a","t","e","r">>, atoms |-> 2 * n + 1, bonds |-> 2 * n + 2]>>

TransformInputs ==
  {[heap |-> HeapOfMolecule(AtomList(els, q), Len(els), b),
    molecule |-> 2 * Len(els) + 3,
    factor |-> f] :
     q \in Sites \X Sites, els \in ElementLists, b \in BondArrays, f \in Factors}

TransformInit ==
  /\ content = <<>>
  /\ filename = <<>>
  /\ args \in TransformInputs
  /\ store = NoStore
  /\ now = 0
  /\ pc = "idle"
  /\ op = "none"
  /\ result = NoResult

CallCenterMolecule == Call("centerMolecule", centerMolecule(args.heap, args.molecule))

CallScaleMolecule ==
  Call("scaleMolecule", scaleMolecule(args.heap, args.molecule, args.factor))

TransformNext ==
  \/ CallCenterMolecule
  \/ CallScaleMolecule
  \/ Return

TransformSpec == TransformInit /\ [][TransformNext]_vars

(***************************************************************************)
(* The store, under a caller that selects, adds, removes and clears        *)
(***************************************************************************)

\* The number of ids that are selected for the first time one after
\* another.
MaxFresh == 9

\* Ids that are selected, added and removed in any order: a sample and an
\* imported molecule.
KnownIds == {"benzene", "mol-0"}

\* Ids that are selected for the first time in this order, so that more
\* than RecentLimit ids are selected.
FreshIds ==
  <<"mol-1", "mol-2", "mol-3", "mol-4", "mol-5", "mol-6", "mol-7", "mol-8", "mol-9",
    "mol-10", "mol-11", "mol-12">>

\* The number of fresh ids selected so far that recentMolecules shows.
FreshSeen(recent) ==
  SetMax({0} \cup {k \in 1..Len(FreshIds) : \E i \in DOMAIN recent : recent[i] = FreshIds[k]})

\* The ids the caller may select: the known ids and the next fresh one.
Selectable(recent) ==
  KnownIds
    \cup {FreshIds[k] : k \in {j \in 1..MaxFresh : j = FreshSeen(recent) + 1}}

StoreInit ==
  /\ content = <<>>
  /\ filename = <<>>
  /\ args = NoArgs
  /\ store = InitialStore
  /\ now = 0
  /\ pc = "idle"
  /\ op = "none"
  /\ result = NoResult

\* One call of an action of the store with the id it is given.
Do(name, id, next) ==
  /\ op' = name
  /\ args' = [id |-> id]
  /\ store' = next
  /\ UNCHANGED <<content, filename, now, pc, result>>

SelectMolecule ==
  \E id \in Selectable(store.recentMolecules) :
    Do("selectMolecule", id, selectMolecule(store, id))

AddMolecule == \E id \in KnownIds : Do("addMolecule", id, addMolecule(store, id))

RemoveMolecule ==
  \E id \in KnownIds \cup {FreshIds[2]} :
    Do("removeMolecule", id, removeMolecule(store, id))

ClearMolecules == Do("clearMolecules", Null, clearMolecules(store))

StoreNext ==
  \/ SelectMolecule
  \/ AddMolecule
  \/ RemoveMolecule
  \/ ClearMolecules

StoreSpec == StoreInit /\ [][StoreNext]_vars
(***************************************************************************)
(* Vocabulary of the properties                                            *)
(***************************************************************************)

FileFormats == {"mol", "pdb", "xyz", "sdf", "unknown"}

ParserOps == {"parseXYZ", "parseMOL", "parsePDB", "parseSDF", "parseFile"}

\* The call that just returned gave a ParseResult with success = true.
Succeeded == "success" \in DOMAIN result /\ result.success

\* The call that just returned gave a ParseResult with success = false.
Failed == "success" \in DOMAIN result /\ ~result.success

AtomIdsOf(mol) == {mol.atoms[i].id : i \in 1..Len(mol.atoms)}

PositionsOf(mol) ==
  [i \in 1..Len(mol.atoms) |->
     <<mol.atoms[i].position.x, mol.atoms[i].position.y, mol.atoms[i].position.z>>]

\* A non-negative decimal integer and nothing else.
IsNaturalText(s) == s # <<>> /\ \A i \in 1..Len(s) : IsDigit(s[i])

\* An optionally signed decimal integer and nothing else.
IsIntegerText(s) ==
  IF Len(s) > 0 /\ s[1] \in {"-", "+"} THEN IsNaturalText(Tail(s)) ELSE IsNaturalText(s)

\* An optionally signed decimal number and nothing else.
IsNumberText(s) ==
  LET body == IF Len(s) > 0 /\ s[1] \in {"-", "+"} THEN Tail(s) ELSE s
      P == {i \in 1..Len(body) : body[i] = "."}
  IN \/ IsNaturalText(body)
     \/ /\ Cardinality(P) = 1
        /\ IsNaturalText(SubSeq(body, 1, SetMin(P) - 1))
        /\ IsNaturalText(SubSeq(body, SetMin(P) + 1, Len(body)))

\* The text after the last '.' of a file name that has one.
Suffix(f) == SubSeq(f, SetMax({i \in 1..Len(f) : f[i] = "."}) + 1, Len(f))

HasDot(f) == \E i \in 1..Len(f) : f[i] = "."

\* The format a recognized extension names.
FormatOfExtension(e) ==
  CASE e \in {<<"m","o","l">>, <<"m","o","l","2">>} -> "mol"
    [] e = <<"p","d","b">> -> "pdb"
    [] e = <<"x","y","z">> -> "xyz"
    [] e = <<"s","d","f">> -> "sdf"
    [] OTHER -> "none"

\* The file name carries a recognized extension (compared without case).
Recognized(f) == HasDot(f) /\ FormatOfExtension(toLowerCase(Suffix(f))) # "none"

(***************************************************************************)
(* C1                                                                      *)
(***************************************************************************)

\* C1: whenever a parser returns success, both atom references of every bond
\* of the molecule are ids of atoms in the molecule's atom list.
C1_NoDanglingBond ==
  (op \in ParserOps /\ Succeeded) =>
    \A k \in 1..Len(result.molecule.bonds) :
      /\ result.molecule.bonds[k].atom1Id \in AtomIdsOf(result.molecule)
      /\ result.molecule.bonds[k].atom2Id \in AtomIdsOf(result.molecule)

\* parseFile has returned a PDB molecule whose two bonds come from the
\* record 'CONECT 1 2 3'.
C1_Witness ==
  /\ op = "parseFile"
  /\ content = PDBFile(<<>>, PDB_WATER, <<CONECT_123>>)
  /\ Succeeded
  /\ Len(result.molecule.bonds) = 2

(***************************************************************************)
(* C2                                                                      *)
(***************************************************************************)

\* C2: parseFile always returns a ParseResult, no exception escapes it; the
\* result is either success with a molecule and no error, or failure with an
\* error and no molecule; its format is one of the five formats.
C2_ParseFileTotal ==
  op = "parseFile" =>
    /\ ~HasThrown(result)
    /\ \/ result.success /\ DOMAIN result = {"success", "molecule", "format"}
       \/ ~result.success /\ DOMAIN result = {"success", "error", "format"}
    /\ result.format \in FileFormats

\* parseFile has returned the failure the catch of parsePDB builds from the
\* TypeError raised in parsePDBBonds.
C2_Witness ==
  /\ op = "parseFile"
  /\ Failed
  /\ result.error = "Failed to parse PDB: TypeError"

(***************************************************************************)
(* C3                                                                      *)
(***************************************************************************)

\* C3: a file name with a recognized extension (mol, mol2, pdb, xyz, sdf, in
\* any case) decides detectFormat, whatever the content.
C3_ExtensionWins ==
  (op = "detectFormat" /\ Recognized(filename)) =>
    result.format = FormatOfExtension(toLowerCase(Suffix(filename)))

\* detectFormat has answered pdb for 'sample.pdb' with the XYZ water file.
C3_Witness ==
  /\ op = "detectFormat"
  /\ content = WaterXYZ
  /\ filename = <<"s","a","m","p","l","e",".","p","d","b">>
  /\ result.format = "pdb"

(***************************************************************************)
(* C4                                                                      *)
(***************************************************************************)

\* The lines of the content as written, and the first of them that is not
\* blank.
RawLines(c) == Split(c, "\n")

FirstNonEmptyLine(c) ==
  LET K == {i \in 1..Len(RawLines(c)) : trim(RawLines(c)[i]) # <<>>}
  IN IF K = {} THEN <<>> ELSE RawLines(c)[SetMin(K)]

\* Detection from the content alone, as C4 states it.
SniffedFormat(c) ==
  IF \E i \in 1..Len(RawLines(c)) : IsPDBLine(RawLines(c)[i]) THEN "pdb"
  ELSE IF IsNaturalText(trim(FirstNonEmptyLine(c))) THEN "xyz"
  ELSE IF Len(RawLines(c)) > 3 /\ IsCountsLine(RawLines(c)[4])
       THEN (IF includes(c, <<"$","$","$","$">>) THEN "sdf" ELSE "mol")
  ELSE "unknown"

\* C4: without a file name, or with a file name that has no recognized
\* extension (none at all when it has no '.'), detectFormat is decided by
\* the content alone: pdb, else xyz, else mol/sdf by line 4, else unknown.
C4_ContentSniffing ==
  (op = "detectFormat" /\ ~Recognized(filename)) =>
    result.format = SniffedFormat(content)

(***************************************************************************)
(* C5                                                                      *)
(***************************************************************************)

\* C5: the format of parseFile's result is detectFormat's answer; on unknown
\* the result is the 'Unknown file format' failure; otherwise it is the
\* result of the parser of the detected format.
C5_DetectThenDispatch ==
  op = "parseFile" =>
    LET format == detectFormat(content, filename)
    IN /\ ~HasThrown(result)
       /\ result.format = format
       /\ format = "unknown" => result = Failure("Unknown file format", "unknown")
       /\ format = "xyz" => result = parseXYZ(content, filename, now)
       /\ format = "mol" => result = parseMOL(content, filename, now)
       /\ format = "pdb" => result = parsePDB(content, filename, now)
       /\ format = "sdf" => result = parseSDF(content, filename, now)

\* parseFile has dispatched to parseSDF, which relabels parseMOL's result.
C5_Witness ==
  /\ op = "parseFile"
  /\ Succeeded
  /\ result.format = "sdf"
  /\ detectFormat(content, filename) = "sdf"

(***************************************************************************)
(* C6                                                                      *)
(***************************************************************************)

\* The atom records each parser reads, and the coordinates of those that
\* are well formed (enough tokens, every coordinate a number).
XYZRecords(c) ==
  LET lines == Lines(c)
      n == Val(parseInt(lines[1]))
      last == IF 2 + n < Len(lines) THEN 2 + n ELSE Len(lines)
  IN SubSeq(lines, 3, last)

MOLRecords(c) ==
  LET lines == Lines(c)
      n == Val(parseInt(SplitWS(trim(lines[4]))[1]))
      last == IF 4 + n < Len(lines) THEN 4 + n ELSE Len(lines)
  IN SubSeq(lines, 5, last)

PDBRecords(c) ==
  LET lines == Lines(c)
  IN Flatten([k \in 1..Len(lines) |->
       IF startsWith(lines[k], <<"A","T","O","M">>) \/ startsWith(lines[k], <<"H","E","T","A","T","M">>)
       THEN <<lines[k]>> ELSE <<>>])

\* The coordinates of a record given the texts of x, y, z; nothing when one
\* of them is not a number.
Coordinates(tx, ty, tz) ==
  IF IsNumberText(tx) /\ IsNumberText(ty) /\ IsNumberText(tz)
  THEN << <<Val(parseFloat(tx)), Val(parseFloat(ty)), Val(parseFloat(tz))>> >>
  ELSE <<>>

WellFormedXYZ(l) ==
  LET p == SplitWS(trim(l))
  IN IF Len(p) >= 4 THEN Coordinates(p[2], p[3], p[4]) ELSE <<>>

WellFormedMOL(l) ==
  LET p == SplitWS(trim(l))
  IN IF Len(p) >= 4 THEN Coordinates(p[1], p[2], p[3]) ELSE <<>>

WellFormedPDB(l) ==
  Coordinates(trim(substring(l, 30, 38)), trim(substring(l, 38, 46)),
              trim(substring(l, 46, 54)))

\* The header of an XYZ file / the counts line of a MOL block is valid.
ValidXYZHeader(c) ==
  Len(Lines(c)) >= 3 /\ IsNaturalText(trim(Lines(c)[1]))

ValidMOLCounts(c) ==
  /\ Len(Lines(c)) >= 5
  /\ LET p == SplitWS(trim(Lines(c)[4]))
     IN Len(p) >= 2 /\ IsNaturalText(p[1]) /\ IsNaturalText(p[2])

\* C6: with a valid header / counts line, malformed atom, bond or CONECT
\* records are skipped: the result is success and its atoms are exactly the
\* well-formed atom records, in file order.
C6_PerRecordTolerance ==
  /\ (op = "parseXYZ" /\ ValidXYZHeader(content)) =>
       /\ Succeeded
       /\ PositionsOf(result.molecule)
            = Flatten([k \in 1..Len(XYZRecords(content)) |->
                         WellFormedXYZ(XYZRecords(content)[k])])
  /\ (op = "parseMOL" /\ ValidMOLCounts(content)) =>
       /\ Succeeded
       /\ PositionsOf(result.molecule)
            = Flatten([k \in 1..Len(MOLRecords(content)) |->
                         WellFormedMOL(MOLRecords(content)[k])])
  /\ op = "parsePDB" =>
       /\ Succeeded
       /\ PositionsOf(result.molecule)
            = Flatten([k \in 1..Len(PDBRecords(content)) |->
                         WellFormedPDB(PDBRecords(content)[k])])

(***************************************************************************)
(* C7                                                                      *)
(***************************************************************************)

\* C7: parseXYZ fails exactly when the content has fewer than 3 lines or its
\* header line is not an integer.
C7_XYZFailureIff ==
  op = "parseXYZ" =>
    (Failed <=> (\/ Len(Lines(content)) < 3
                 \/ ~IsIntegerText(trim(Lines(content)[1]))))

(***************************************************************************)
(* C8                                                                      *)
(***************************************************************************)

\* C8: the bonds of a successful parseXYZ result are the bonds distance-based
\* inference gives for its atoms; the water file gives 3 atoms, the name
\* 'water' and exactly 2 bonds.
C8_XYZBondsInferred ==
  (op = "parseXYZ" /\ Succeeded) =>
    /\ result.molecule.bonds = generateBondsFromDistance(result.molecule.atoms)
    /\ (content = WaterXYZ /\ filename = <<>>) =>
         /\ Len(result.molecule.atoms) = 3
         /\ result.molecule.name = <<"w","a","t","e","r">>
         /\ Len(result.molecule.bonds) = 2
         /\ {<<result.molecule.bonds[k].atom1Id, result.molecule.bonds[k].atom2Id>> :
               k \in 1..2} = {<<<<"O","1">>, <<"H","2">>>>, <<<<"O","1">>, <<"H","3">>>>}

\* parseXYZ has parsed the water file, called without a name.
C8_Witness ==
  /\ op = "parseXYZ"
  /\ Succeeded
  /\ content = WaterXYZ
  /\ filename = <<>>

(***************************************************************************)
(* C9                                                                      *)
(***************************************************************************)

\* C9: the name of the molecule parseXYZ (or parseFile on XYZ input) returns
\* is the comment line when that is not empty, else 'Imported Molecule',
\* else the caller-supplied name.
C9_XYZNameChain ==
  (/\ Succeeded
   /\ \/ op = "parseXYZ"
      \/ op = "parseFile" /\ result.format = "xyz") =>
    LET comment == trim(Lines(content)[2])
    IN result.molecule.name
         = (IF comment # <<>> THEN comment ELSE <<"I","m","p","o","r","t","e","d"," ","M","o","l","e","c","u","l","e">>)

(***************************************************************************)
(* C10                                                                     *)
(***************************************************************************)

\* C10: parseMOL fails whenever one of the first two tokens of the counts
\* line is missing or is not a non-negative integer; otherwise atomCount and
\* bondCount are those two integers.
C10_MOLCountsStrict ==
  (op = "parseMOL" /\ Len(Lines(content)) >= 5) =>
    LET p == SplitWS(trim(Lines(content)[4]))
    IN IF Len(p) >= 2 /\ IsNaturalText(p[1]) /\ IsNaturalText(p[2])
       THEN /\ Succeeded
            /\ MOLCounts(p)
                 = [atomCount |-> Num(DecVal(p[1])), bondCount |-> Num(DecVal(p[2]))]
       ELSE Failed

(***************************************************************************)
(* C11                                                                     *)
(***************************************************************************)

\* The atom lines and the bond lines of a MOL block with valid counts.
MOLBondRecords(c) ==
  LET lines == Lines(c)
      p == SplitWS(trim(lines[4]))
      first == 5 + DecVal(p[1])
      last == IF 4 + DecVal(p[1]) + DecVal(p[2]) < Len(lines)
              THEN 4 + DecVal(p[1]) + DecVal(p[2]) ELSE Len(lines)
  IN SubSeq(lines, first, last)

\* The id of the atom read from the a-th atom line (1-based) of the file.
AtomOfLine(c, a) == SplitWS(trim(MOLRecords(c)[a]))[4] \o NatToStr(a)

\* The a-th atom line exists and is read as an atom.
IsAtomLine(c, a) ==
  a \in 1..Len(MOLRecords(c)) /\ WellFormedMOL(MOLRecords(c)[a]) # <<>>

\* C11: the bond parseMOL produces from the k-th bond line 'a b order', a and
\* b being 1-based positions of atom lines that are read as atoms, joins the
\* atom of the a-th atom line to the atom of the b-th atom line, also when
\* another atom line was skipped.
C11_MOLBondEndpoints ==
  (op = "parseMOL" /\ ValidMOLCounts(content) /\ Succeeded) =>
    \A k \in 1..Len(MOLBondRecords(content)) :
      LET p == SplitWS(trim(MOLBondRecords(content)[k]))
      IN (/\ Len(p) >= 3 /\ IsNaturalText(p[1]) /\ IsNaturalText(p[2])
          /\ IsAtomLine(content, DecVal(p[1]))
          /\ IsAtomLine(content, DecVal(p[2]))) =>
           \A n \in 1..Len(result.molecule.bonds) :
             result.molecule.bonds[n].id = BondId(k) =>
               /\ result.molecule.bonds[n].atom1Id = AtomOfLine(content, DecVal(p[1]))
               /\ result.molecule.bonds[n].atom2Id = AtomOfLine(content, DecVal(p[2]))

(***************************************************************************)
(* C12                                                                     *)
(***************************************************************************)

\* C12: every bond of a successful parseMOL or parseSDF result has an order
\* among 1, 2 and 3.
C12_MOLOrderClamped ==
  (op \in {"parseMOL", "parseSDF"} /\ Succeeded) =>
    \A n \in 1..Len(result.molecule.bonds) :
      result.molecule.bonds[n].order \in {1, 2, 3}

(***************************************************************************)
(* C13                                                                     *)
(***************************************************************************)

\* The positions of the HEADER records, and of the COMPND records that
\* contain 'MOLECULE:'.
HeaderLines(c) == {i \in 1..Len(Lines(c)) : IsHeader(Lines(c)[i])}

CompndLines(c) == {i \in 1..Len(Lines(c)) : IsCompnd(Lines(c)[i])}

\* C13: parsePDB names the molecule from the first HEADER record when the
\* file has one, wherever it stands; else from the first COMPND record with
\* 'MOLECULE:'; else by the caller's name (or the default name).
C13_PDBNameChain ==
  (op = "parsePDB" /\ Succeeded) =>
    result.molecule.name =
      (IF HeaderLines(content) # {}
       THEN NameFromLine(Lines(content)[SetMin(HeaderLines(content))],
                         Or(filename, <<"P","D","B"," ","S","t","r","u","c","t","u","r","e">>))
       ELSE IF CompndLines(content) # {}
       THEN NameFromLine(Lines(content)[SetMin(CompndLines(content))],
                         Or(filename, <<"P","D","B"," ","S","t","r","u","c","t","u","r","e">>))
       ELSE Or(filename, <<"P","D","B"," ","S","t","r","u","c","t","u","r","e">>))

(***************************************************************************)
(* C14                                                                     *)
(***************************************************************************)

\* The ids of the atoms read from the atom records with serial number s.
AtomsWithSerial(c, s) ==
  {PDBAtom(PDBRecords(c)[k])[1].id :
     k \in {i \in 1..Len(PDBRecords(c)) :
              /\ PDBAtom(PDBRecords(c)[i]) # <<>>
              /\ parseInt(Field(PDBRecords(c)[i], 6, 11)) = s}}

\* The serial numbers of the CONECT records of the content, one sequence
\* 's t1 .. tk' per record.
ConectSerials(c) ==
  LET ls == ConectLines(Split(c, "\n"))
  IN {ConectParts(Tokens(substring(ls[k], 6, Len(ls[k])))) : k \in 1..Len(ls)}

\* The bond joins an atom of serial s to an atom of serial t.
JoinsSerials(c, bond, s, t) ==
  \/ bond.atom1Id \in AtomsWithSerial(c, s) /\ bond.atom2Id \in AtomsWithSerial(c, t)
  \/ bond.atom1Id \in AtomsWithSerial(c, t) /\ bond.atom2Id \in AtomsWithSerial(c, s)

\* C14: when the bonds of a parsePDB result come from CONECT records, each
\* of them joins the atom of serial s to the atom of serial ti of some
\* record 'CONECT s t1 .. tk'.
C14_ConectBySerial ==
  (/\ op = "parsePDB"
   /\ Succeeded
   /\ parsePDBBonds(content, result.molecule.atoms).bonds # <<>>) =>
    \A n \in 1..Len(result.molecule.bonds) :
      \E parts \in ConectSerials(content) :
        \E j \in 2..Len(parts) :
          JoinsSerials(content, result.molecule.bonds[n], parts[1], parts[j])

(***************************************************************************)
(* C15                                                                     *)
(***************************************************************************)

\* The text before the first '$$$$' of the content (all of it without one).
FirstBlock(c) ==
  LET K == {i \in 1..(Len(c) - 3) : SubSeq(c, i, i + 3) = <<"$","$","$","$">>}
  IN IF K = {} THEN c ELSE SubSeq(c, 1, SetMin(K) - 1)

\* C15: parseSDF fails when the first block is empty or blank; otherwise its
\* result is parseMOL's result on the first block with the format sdf, so
\* that nothing after the first '$$$$' affects it.
C15_SDFDelegates ==
  op = "parseSDF" =>
    IF \A i \in 1..Len(FirstBlock(content)) : FirstBlock(content)[i] \in WS
    THEN Failed /\ result.format = "sdf"
    ELSE /\ ~HasThrown(result)
         /\ result = [parseMOL(FirstBlock(content), filename, now) EXCEPT !.format = "sdf"]

\* parseSDF has parsed the first of two blocks.
C15_Witness ==
  /\ op = "parseSDF"
  /\ Succeeded
  /\ Len(FirstBlock(content)) + 6 < Len(content)
  /\ result.molecule.name = <<"w","a","t","e","r">>
  /\ result.format = "sdf"

(***************************************************************************)
(* C16                                                                     *)
(***************************************************************************)

\* The expected bond length of two elements: the table entry for 'A-B', else
\* for 'B-A', else the default 1.6.
ExpectedLength(a, b) ==
  IF \E e \in BOND_DISTANCES : e[1] = a \o <<"-">> \o b
  THEN (CHOOSE e \in BOND_DISTANCES : e[1] = a \o <<"-">> \o b)[2]
  ELSE IF \E e \in BOND_DISTANCES : e[1] = b \o <<"-">> \o a
  THEN (CHOOSE e \in BOND_DISTANCES : e[1] = b \o <<"-">> \o a)[2]
  ELSE 160

\* The pairs of positions i < j of atoms within bonding distance.
ClosePairs(atoms) ==
  {p \in (1..Len(atoms)) \X (1..Len(atoms)) :
     /\ p[1] < p[2]
     /\ LET dx == atoms[p[1]].position.x - atoms[p[2]].position.x
            dy == atoms[p[1]].position.y - atoms[p[2]].position.y
            dz == atoms[p[1]].position.z - atoms[p[2]].position.z
            reach == ExpectedLength(atoms[p[1]].element, atoms[p[2]].element) + 40
        IN dx * dx + dy * dy + dz * dz <= reach * reach}

\* C16: the inferred bonds (those of a parseXYZ result) are exactly one
\* single bond per pair of atoms within expected length + 0.4, and no other;
\* two H atoms 0.74 apart give one single bond, two H atoms 5.0 apart none.
C16_InferredBondsExact ==
  (op = "parseXYZ" /\ Succeeded) =>
    LET atoms == result.molecule.atoms
        bonds == result.molecule.bonds
    IN /\ Len(bonds) = Cardinality(ClosePairs(atoms))
       /\ {<<bonds[k].atom1Id, bonds[k].atom2Id, bonds[k].order>> : k \in 1..Len(bonds)}
            = {<<atoms[p[1]].id, atoms[p[2]].id, 1>> : p \in ClosePairs(atoms)}
       /\ content = XYZFile(<<"2">>, <<"p","a","i","r">>, <<XYZ_H0, XYZ_H074>>) =>
            Len(bonds) = 1 /\ bonds[1].order = 1
       /\ content = XYZFile(<<"2">>, <<"p","a","i","r">>, <<XYZ_H0, XYZ_H5>>) => Len(bonds) = 0

\* parseXYZ has inferred the bond of two H atoms 0.74 apart.
C16_Witness ==
  /\ op = "parseXYZ"
  /\ content = XYZFile(<<"2">>, <<"p","a","i","r">>, <<XYZ_H0, XYZ_H074>>)
  /\ Succeeded
  /\ Len(result.molecule.atoms) = 2
  /\ Len(result.molecule.bonds) = 1

(***************************************************************************)
(* C17                                                                     *)
(***************************************************************************)

\* C17: the two endpoints of every bond of a molecule a parser returns are
\* different atoms.
C17_NoSelfBond ==
  (op \in ParserOps /\ Succeeded) =>
    \A k \in 1..Len(result.molecule.bonds) :
      result.molecule.bonds[k].atom1Id # result.molecule.bonds[k].atom2Id

(***************************************************************************)
(* C18                                                                     *)
(***************************************************************************)

\* C18: the ids of the atoms of a molecule a parser returns are pairwise
\* distinct.
C18_AtomIdsUnique ==
  (op \in ParserOps /\ Succeeded) =>
    \A i, j \in 1..Len(result.molecule.atoms) :
      i # j => result.molecule.atoms[i].id # result.molecule.atoms[j].id


(***************************************************************************)
(* Geometry                                                                *)
(***************************************************************************)

\* A number that is neither an infinity nor NaN.
IsFinite(v) == v[2] # 0

ZeroBox == [min |-> Origin, max |-> Origin, size |-> Origin, center |-> Origin]

\* Every component of the box b is finite.
FiniteBox(b) ==
  \A i \in 1..3 :
    IsFinite(b.min[i]) /\ IsFinite(b.max[i]) /\ IsFinite(b.size[i]) /\ IsFinite(b.center[i])

\* No atom of the list has an element of the element table.
NoKnownElement(atoms) ==
  \A i \in 1..Len(atoms) : \A e \in elements : e[1] # atoms[i].element

\* The index i is outside the atom list.
OutsideList(atoms, i) == i < 0 \/ i >= Len(atoms)

\* C19: the geometry functions return their fallback on degenerate input:
\* distance3D(p, p) is 0; calculateAngle is 0 when p1 = p2 or p3 = p2;
\* calculateCenterOfMass is the origin when the list is empty or has only
\* unknown elements; calculateBoundingBox is the all-zero box for the empty
\* list and has no infinite component for any list; calculateBondLength is
\* 0 when an endpoint index is outside the atom list.
C19_GeometryFallbacks ==
  /\ (op = "distance3D" /\ args.points[1] = args.points[2])
       => result.value = Root(0)
  /\ (op = "calculateAngle"
        /\ (args.points[1] = args.points[2] \/ args.points[3] = args.points[2]))
       => result.value = ZeroDegrees
  /\ (op = "calculateCenterOfMass" /\ NoKnownElement(args.atoms))
       => result.value = Origin
  /\ op = "calculateBoundingBox"
       => /\ FiniteBox(result.value)
          /\ args.atoms = <<>> => result.value = ZeroBox
  /\ (op = "calculateBondLength"
        /\ (OutsideList(args.atoms, args.bond.atomIndex1)
              \/ OutsideList(args.atoms, args.bond.atomIndex2)))
       => result.value = Root(0)

\* calculateAngle has been called with p1 = p2 and p3 another point.
C19_Witness ==
  /\ op = "calculateAngle"
  /\ args.points[1] = args.points[2]
  /\ args.points[3] # args.points[2]
  /\ result.value = ZeroDegrees

\* The four points define a torsion: p2 # p3, and neither p1 nor p4 is on
\* the line through p2 and p3.
DefinedTorsion(p1, p2, p3, p4) ==
  /\ p2 # p3
  /\ \E i \in 1..3 : cross(Vector(p2, p1), Vector(p3, p2))[i][1] # 0
  /\ \E i \in 1..3 : cross(Vector(p3, p2), Vector(p4, p3))[i][1] # 0

\* The four points are in one plane: b1 . (b2 x b3) = 0.
Planar(q) ==
  dot(Vector(q[2], q[1]), cross(Vector(q[3], q[2]), Vector(q[4], q[3])))[1] = 0

\* The dihedral of the same points with p1 and p4 swapped.
Swapped(q) == calculateDihedral(q[4], q[2], q[3], q[1])

\* An angle of 180 or -180 degrees.
IsStraight(a) == a.cosSign = -1 /\ a.tanSquared = Fin(0)

\* The statement as claimed: swapping p1 and p4 negates every defined
\* dihedral.
C20_AntiSymmetricEverywhere ==
  (op = "calculateDihedral"
     /\ DefinedTorsion(args.points[1], args.points[2], args.points[3], args.points[4]))
    => Swapped(args.points) = NegateDegrees(result.value)

\* C20: swapping p1 and p4 negates every defined dihedral other than the
\* planar trans one, where both orders give an angle of magnitude 180; a
\* planar arrangement gives 0 or an angle of magnitude 180.
C20_AntiSymmetric ==
  (op = "calculateDihedral"
     /\ DefinedTorsion(args.points[1], args.points[2], args.points[3], args.points[4]))
    => /\ ~IsStraight(result.value)
            => Swapped(args.points) = NegateDegrees(result.value)
       /\ IsStraight(result.value) => IsStraight(Swapped(args.points))
       /\ Planar(args.points)
            => (result.value = Degrees0 \/ IsStraight(result.value))
       /\ ~Planar(args.points)
            => (result.value.sign # 0 /\ Swapped(args.points).sign = -result.value.sign)

\* A non-planar dihedral has been computed, and the swap changes its sign.
C20_Witness ==
  /\ op = "calculateDihedral"
  /\ DefinedTorsion(args.points[1], args.points[2], args.points[3], args.points[4])
  /\ ~Planar(args.points)
  /\ result.value.sign = 1
  /\ Swapped(args.points) = NegateDegrees(result.value)

(***************************************************************************)
(* Molecular formula                                                       *)
(***************************************************************************)

\* The position of a letter in the alphabet, in either case.
Letter(c) ==
  IF \E i \in 1..26 : UPPER[i] = c THEN CHOOSE i \in 1..26 : UPPER[i] = c
  ELSE CHOOSE i \in 1..26 : LOWER[i] = c

RECURSIVE Alphabetical(_, _)
\* a is before b in alphabetical order.
Alphabetical(a, b) ==
  IF b = <<>> THEN FALSE
  ELSE IF a = <<>> THEN TRUE
  ELSE IF Letter(a[1]) # Letter(b[1]) THEN Letter(a[1]) < Letter(b[1])
  ELSE Alphabetical(Tail(a), Tail(b))

\* el is before other in the order C, H, then alphabetical.
HillBefore(el, other) ==
  IF el = <<"C">> THEN other # <<"C">>
  ELSE IF other = <<"C">> THEN FALSE
  ELSE IF el = <<"H">> THEN other # <<"H">>
  ELSE IF other = <<"H">> THEN FALSE
  ELSE Alphabetical(el, other)

RECURSIVE SubscriptDigits(_)
\* The decimal digits of v as subscript digits.
SubscriptDigits(v) ==
  IF v < 10 THEN <<subscripts[v + 1]>>
  ELSE SubscriptDigits(v \div 10) \o <<subscripts[(v % 10) + 1]>>

\* The element el as the formula writes it for n atoms.
Written(el, n) == IF n = 1 THEN el ELSE el \o SubscriptDigits(n)

RECURSIVE Concat(_)
Concat(ss) == IF ss = <<>> THEN <<>> ELSE Head(ss) \o Concat(Tail(ss))

\* The orders of the elements K: each element once, in the order C, H, then
\* alphabetical.
HillOrders(K) ==
  {o \in [1..Cardinality(K) -> K] :
     /\ \A el \in K : \E i \in DOMAIN o : o[i] = el
     /\ \A i, j \in DOMAIN o : i < j => HillBefore(o[i], o[j])}

\* C21: the formula is the elements of the atoms, each once, in the order
\* C, H, then alphabetical, each written with its count as subscript digits
\* when the count is above 1; the atoms O, H, H give "H₂O".
C21_FormulaOrder ==
  op = "calculateMolecularFormula"
    => /\ \E o \in HillOrders(KeysOf(args.atoms)) :
            result.value
              = Concat([i \in DOMAIN o |-> Written(o[i], CountOf(args.atoms, o[i]))])
       /\ [i \in DOMAIN args.atoms |-> args.atoms[i].element] = <<<<"O">>, <<"H">>, <<"H">>>>
            => result.value = <<"H","₂","O">>

\* The formula "H₂O" has been computed for the atoms O, H, H.
C21_Witness ==
  /\ op = "calculateMolecularFormula"
  /\ [i \in DOMAIN args.atoms |-> args.atoms[i].element] = <<<<"O">>, <<"H">>, <<"H">>>>
  /\ result.value = <<"H","₂","O">>

\* The decimal digits of the integer n.
DecimalDigits(n) ==
  IF n.mantissa = 0 THEN <<"0">> ELSE NatToStr(n.mantissa) \o Zeros(n.exponent)

\* The string has no subscript digit.
NoSubscript(s) == \A i \in DOMAIN s : \A k \in 1..10 : s[i] # subscripts[k]

Below1e21(n) == n.mantissa = 0 \/ Len(NatToStr(n.mantissa)) + n.exponent <= 21

Given == args.heap[args.molecule]

Got == result.heap[result.value]

\* Atom i of a molecule object mol in the heap h.
AtomAt(h, mol, i) == h[h[mol.atoms][i]]

\* C23: centerMolecule and scaleMolecule leave every object and array of
\* their argument as it was, and return a new molecule with the same id,
\* name, bonds, atom count, atom order and elements, whose atoms and
\* position arrays are new ones.
C23_NoMutation ==
  op \in {"centerMolecule", "scaleMolecule"}
    => /\ \A a \in 1..Len(args.heap) : result.heap[a] = args.heap[a]
       /\ result.value > Len(args.heap)
       /\ Got.atoms > Len(args.heap)
       /\ Got.id = Given.id
       /\ Got.name = Given.name
       /\ result.heap[Got.bonds] = args.heap[Given.bonds]
       /\ Len(result.heap[Got.atoms]) = Len(args.heap[Given.atoms])
       /\ \A i \in 1..Len(args.heap[Given.atoms]) :
            /\ result.heap[Got.atoms][i] > Len(args.heap)
            /\ AtomAt(result.heap, Got, i).position > Len(args.heap)
            /\ AtomAt(result.heap, Got, i).id = AtomAt(args.heap, Given, i).id
            /\ AtomAt(result.heap, Got, i).element = AtomAt(args.heap, Given, i).element

\* centerMolecule has moved an atom: the returned molecule has another
\* position for its first atom than the molecule given, which has kept its
\* own.
C23_Witness ==
  /\ op = "centerMolecule"
  /\ Len(args.heap[Given.atoms]) = 2
  /\ result.heap[AtomAt(result.heap, Got, 1).position]
       # [i \in 1..3 |-> Fin(args.heap[AtomAt(args.heap, Given, 1).position][i])]
  /\ result.heap[AtomAt(args.heap, Given, 1).position]
       = args.heap[AtomAt(args.heap, Given, 1).position]

(***************************************************************************)
(* Purity, degenerate dihedrals, MOL line numbers, CONECT bonds            *)
(***************************************************************************)

\* C24: parseFile returns, at any time, the ParseResult it returns on the
\* same content and file name at time 0.
C24_ParseFilePure ==
  op = "parseFile" => result = parseFile(content, filename, 0)

\* The dihedral is a number (not NaN) above -180 and at most 180 degrees.
InHalfOpenRange(a) == a # DegreesNaN /\ a # NegateDegrees(Degrees180)

\* C25: calculateDihedral returns a number in (-180, 180], never NaN, for
\* all points, also when p2 = p3, when points coincide or when three
\* consecutive points are on one line.
C25_DihedralInRange ==
  op = "calculateDihedral" => InHalfOpenRange(result.value)

\* The text without the white space trim() removes at its end, its start
\* kept.
KeepStart(c) == SubSeq(c, 1, Len(c) - (Len(trimStart(c)) - Len(trim(c))))

\* C26: parseMOL reads the counts from the fourth line of the text and the
\* atoms from the lines after it, also when the text starts with a blank
\* line: its result is the one read from the lines of the text as they are
\* numbered from its start.
C26_MOLFourthLine ==
  op = "parseMOL"
    => result = Catch(MOLLines(Split(KeepStart(content), "\n"), filename, now),
                      "Failed to parse MOL: TypeError", "mol")

\* The content has a CONECT record.
HasConect(c) == \E k \in 1..Len(Split(c, "\n")) : startsWith(Split(c, "\n")[k], <<"C","O","N","E","C","T">>)

\* C27: parsePDB infers its bonds from distances when the content has no
\* CONECT record, and only then: with a CONECT record its bonds are those
\* read from the CONECT pairs, none when no pair refers to a parsed atom.
C27_InferenceOnlyWithoutConect ==
  (op = "parsePDB" /\ result.success)
    => result.molecule.bonds
         = IF HasConect(content)
           THEN parsePDBBonds(content, result.molecule.atoms).bonds
           ELSE generateBondsFromDistance(result.molecule.atoms)

\* The index pairs of the CONECT records of c that are in range for atoms.
ValidPairs(c, atoms) ==
  {p \in {AllPairs(ConectLines(Split(c, "\n")))[k] :
            k \in 1..Len(AllPairs(ConectLines(Split(c, "\n"))))} :
     ~ConectSkipped(p, atoms)}

\* The unordered pairs of atom indices among them.
UnorderedPairs(c, atoms) == {{Val(p[1]), Val(p[2])} : p \in ValidPairs(c, atoms)}

\* C28: the bonds parsePDB makes from CONECT records are one for each
\* unordered pair of atoms the records name, each of order 1, with pairwise
\* distinct ids.
C28_ConectDeduplicated ==
  (op = "parsePDB" /\ result.success /\ ValidPairs(content, result.molecule.atoms) # {})
    => /\ Len(result.molecule.bonds)
            = Cardinality(UnorderedPairs(content, result.molecule.atoms))
       /\ \A i \in DOMAIN result.molecule.bonds : result.molecule.bonds[i].order = 1
       /\ \A i, j \in DOMAIN result.molecule.bonds :
            i # j => result.molecule.bonds[i].id # result.molecule.bonds[j].id

\* 'CONECT 1 2' followed by 'CONECT 2 1' has given one bond.
C28_Witness ==
  /\ op = "parsePDB"
  /\ result.success
  /\ includes(content, CONECT_12 \o <<"\n">> \o CONECT_21)
  /\ Len(result.molecule.bonds) = 1
  /\ result.molecule.bonds[1].id = <<"b","1">>

(***************************************************************************)
(* The molecule store                                                      *)
(***************************************************************************)

\* The id is a key of molecules.
InMolecules(id) == \E k \in DOMAIN store.molecules : store.molecules[k] = id

\* C29: selectedMoleculeId is null or the id of a molecule in molecules,
\* and every id in recentMolecules is the id of a molecule in molecules.
C29_IdsInMolecules ==
  /\ store.selectedMoleculeId = Null \/ InMolecules(store.selectedMoleculeId)
  /\ \A i \in DOMAIN store.recentMolecules : InMolecules(store.recentMolecules[i])

\* recentMolecules has no id twice and at most 10 entries.
RecentBounded ==
  /\ \A i, j \in DOMAIN store.recentMolecules :
       i # j => store.recentMolecules[i] # store.recentMolecules[j]
  /\ Len(store.recentMolecules) <= 10

\* a is b or the start of b.
IsPrefix(a, b) == Len(a) <= Len(b) /\ a = SubSeq(b, 1, Len(a))

\* The list without the id, in the order of the list.
Others(list, id) == SelectSeq(list, LAMBDA r : r # id)

\* One call keeps recentMolecules most recently selected first:
\* selectMolecule puts its id first and keeps the other ids in their order
\* (dropping from the end), removeMolecule takes its id out and keeps the
\* other ids in their order, clearMolecules empties the list.
RecentStep ==
  /\ op' = "selectMolecule"
       => /\ store'.recentMolecules[1] = args'.id
          /\ IsPrefix(Tail(store'.recentMolecules), Others(store.recentMolecules, args'.id))
  /\ op' = "removeMolecule"
       => store'.recentMolecules = Others(store.recentMolecules, args'.id)
  /\ op' = "clearMolecules" => store'.recentMolecules = <<>>

\* C30: recentMolecules has no id twice and at most 10 entries, and is
\* ordered most recently selected first: the id passed to the last
\* selectMolecule is its first entry until that id is removed or the store
\* cleared.
C30_RecentOrdered == []RecentBounded /\ [][RecentStep]_vars

\* More than 10 ids have been selected: the list is full, the last id
\* selected is first, and the first fresh id, which is never removed and
\* was selected before the third, has been dropped from the end.
C30_Witness ==
  /\ op = "selectMolecule"
  /\ Len(store.recentMolecules) = 10
  /\ store.recentMolecules[1] = args.id
  /\ \E i \in DOMAIN store.recentMolecules : store.recentMolecules[i] = FreshIds[3]
  /\ \A i \in DOMAIN store.recentMolecules : store.recentMolecules[i] # FreshIds[1]
====
